---- MODULE Spec2Model ----
(***************************************************************************)
(* Model of the ro-manager HTTP client core:                               *)
(*   MiscUtils/HttpSession.py   HTTP_Session (doRequest, redirect          *)
(*                              followers, RDF negotiation)                *)
(*   rocommand/ro_remote_metadata.py   manifest cache of the assembler     *)
(*                                                                         *)
(* A public operation of HTTP_Session is a call in progress: pc is its     *)
(* position, every step performs one whole doRequest or doRequestRDF with  *)
(* the outcome of the network exchange drawn from a small set.             *)
(***************************************************************************)
EXTENDS Integers, Sequences, FiniteSets, TLC

----------------------------------------------------------------------------
(* Bounds of the model *)

\* number of _loadManifest calls made on one assembler
MaxLoads == 3

\* number of close() calls made on one session
MaxCloses == 2

----------------------------------------------------------------------------
(* Values *)

\* Python None for strings
None == "None"

\* the token of the session (accesskey)
Token == "tok"

\* scheme and netloc of the session's base URI
BaseScheme == "http"
BaseHost == "srv"

\* URIs, already resolved against the base URI (getpathuri); kind tells what
\* the string tests of doRequestRDF see in the URI text:
\*   "plain"   no "w3id.org/ro-id" in it
\*   "w3ro"    w3id prefix, not ending in .ttl
\*   "w3evo"   w3id prefix, ends in .ttl, names evo_info/enrichment/folders
Uri(s, h, p, k) == [scheme |-> s, netloc |-> h, path |-> p, kind |-> k]

OwnA == Uri("http", "srv", "/a", "plain")
OwnB == Uri("http", "srv", "/b", "plain")
ExtUri == Uri("http", "ext", "/x", "plain")
TlsUri == Uri("https", "srv", "/a", "plain")
W3Ro == Uri("http", "w3id.org", "/ro-id/r1", "w3ro")
W3Evo == Uri("http", "w3id.org", "/ro-id/r1/annotations/evo_info.ttl", "w3evo")
\* the search endpoint the w3id URIs are rewritten to
IndexUri == Uri("https", "api.rohub.org", "/api/search/manifests/", "plain")
\* stands for a header that is not there
NoUri == Uri("", "", "", "absent")

CallUris == {OwnA, ExtUri, TlsUri, W3Ro, W3Evo}
Locations == {NoUri, OwnB, ExtUri, TlsUri, W3Evo}

\* a Python dict of header fields: a function from the names present
EmptyDict == [n \in {} |-> None]
Put(d, k, v) == [n \in (DOMAIN d) \cup {k} |-> IF n = k THEN v ELSE d[n]]
Has(d, k) == k \in DOMAIN d

Bearer(key) == <<"Bearer", key>>

RDF_CONTENT_TYPES ==
    [ct \in {"application/rdf+xml", "text/turtle", "text/n3", "text/nt",
             "application/json", "application/xhtml"} |->
        CASE ct = "application/rdf+xml" -> "xml"
          [] ct = "text/turtle"         -> "n3"
          [] ct = "text/n3"             -> "n3"
          [] ct = "text/nt"             -> "nt"
          [] ct = "application/json"    -> "jsonld"
          [] ct = "application/xhtml"   -> "rdfa"]

ACCEPT_RDF_CONTENT_TYPES == "application/rdf+xml, text/turtle"

----------------------------------------------------------------------------
(* Response values *)

\* the data element of a result: None, the raw body, or an rdflib graph
NoData == [kind |-> "none", raw |-> "", g |-> {}]
RawData(b) == [kind |-> "raw", raw |-> b, g |-> {}]
GraphData(g) == [kind |-> "graph", raw |-> "", g |-> g]

\* bodies a server can send
\*   "ttl:good"     Turtle text of one triple
\*   "garbage"      neither RDF nor JSON
\*   "json:none"    a JSON object without results
\*   "json:good"    a JSON search result whose text is "ttl:good"
\*   "json:bad"     a JSON search result whose text is "garbage"
HttpBodies == {"ttl:good", "garbage"}
IndexBodies == {"garbage", "json:none", "json:good", "json:bad"}

\* content-type header values as received: chunks of text, ";" its own chunk
CtTurtle == <<"text/turtle">>
CtTurtleParam == <<" Text/Turtle ", ";", "charset=UTF-8">>
CtPlain == <<"text/plain">>
CtJson == <<"application/json">>

\* str.strip().lower() of one chunk
StripLower(c) ==
    CASE c = " Text/Turtle " -> "text/turtle"
      [] c = "charset=UTF-8" -> "charset=utf-8"
      [] OTHER -> c

RECURSIVE BeforeSemicolon(_)
\* v.split(";",1)[0]
BeforeSemicolon(v) ==
    IF v = <<>> \/ Head(v) = ";" THEN <<>>
    ELSE <<Head(v)>> \o BeforeSemicolon(Tail(v))

\* headers["content-type"].split(";",1)[0].strip().lower()
MediaType(v) ==
    LET first == BeforeSemicolon(v)
    IN  IF first = <<>> THEN "" ELSE StripLower(first[1])

ReasonOf(status) ==
    CASE status = 200 -> "OK"
      [] status = 302 -> "Found"
      [] status = 303 -> "See Other"
      [] status = 307 -> "Temporary Redirect"
      [] status = 404 -> "Not Found"
      [] OTHER -> ""

\* the header dict of a response with the given location and content-type
\* (NoUri, <<>>: the header is not there)
MkHeaders(loc, ct) ==
    LET h0 == EmptyDict
        h1 == IF loc = NoUri THEN h0 ELSE Put(h0, "location", loc)
    IN  IF ct = <<>> THEN h1 ELSE Put(h1, "content-type", ct)

\* one exchange on a connection as the transport reports it:
\*   t = "sendfail"  request() raises (connection refused, ...)
\*   t = "recvfail"  getresponse()/read() raises
\*   t = "resp"      a response was read
Outcome(t, status, loc, ct, body, desc) ==
    [t |-> t, status |-> status, headers |-> MkHeaders(loc, ct),
     body |-> body, desc |-> desc]

\* redirect responses: a 302 to every location, 303 and 307 to the own host
RedirectOutcomes ==
    {Outcome("resp", 302, l, <<>>, "", "") : l \in Locations}
    \cup {Outcome("resp", s, OwnB, <<>>, "", "") : s \in {303, 307}}

\* 2xx responses: content-type absent, RDF (plain and with parameter),
\* RDF with a body that does not parse, not RDF
SuccessOutcomes ==
    {Outcome("resp", 200, NoUri, <<>>, "ttl:good", ""),
     Outcome("resp", 200, NoUri, CtTurtle, "ttl:good", ""),
     Outcome("resp", 200, NoUri, CtTurtleParam, "ttl:good", ""),
     Outcome("resp", 200, NoUri, CtTurtle, "garbage", ""),
     Outcome("resp", 200, NoUri, CtPlain, "ttl:good", "")}

HttpOutcomes ==
    {Outcome("sendfail", 0, NoUri, <<>>, "", "Connection refused"),
     Outcome("recvfail", 0, NoUri, <<>>, "", "timed out"),
     Outcome("resp", 404, NoUri, CtPlain, "garbage", "")}
    \cup RedirectOutcomes \cup SuccessOutcomes

\* what requests.get / session.get hands back; the library follows the
\* redirects that carry a location itself, so a redirect status comes back
\* only without one
LibOutcomes ==
    {Outcome("sendfail", 0, NoUri, <<>>, "", "ConnectionError"),
     Outcome("resp", 404, NoUri, CtJson, "json:none", ""),
     Outcome("resp", 302, NoUri, CtJson, "json:none", "")}
    \cup {Outcome("resp", 200, NoUri, ct, b, "") :
             ct \in {CtJson, CtPlain}, b \in IndexBodies}

----------------------------------------------------------------------------
(* HTTP_Session.doRequest *)

\* the result of one call: exc is the exception that escaped ("none": the
\* call returned), sent the requests handed to a connection, rh the caller's
\* reqheaders dict after the call
Result(exc, sent, rh, status, reason, headers, data) ==
    [exc |-> exc, sent |-> sent, rh |-> rh, status |-> status,
     reason |-> reason, headers |-> headers, data |-> data]

Raised(exc, sent, rh) == Result(exc, sent, rh, 0, "", EmptyDict, NoData)

\* a check that compares the host only
Foreign_HostOnly(u) == u.netloc # BaseHost

Foreign(u) == u.scheme # BaseScheme \/ u.netloc # BaseHost

\* the credential doRequest uses for the request
UseKey(key, u) == IF Foreign(u) THEN None ELSE key

\* an assembly that leaves an authorization the caller named in place
AssembleHeaders_KeepsCallers(usekey, rh, ctype, accept) ==
    LET h1 == IF usekey # None /\ ~Has(rh, "authorization")
              THEN Put(rh, "authorization", Bearer(usekey)) ELSE rh
        h2 == IF ctype # None THEN Put(h1, "content-type", ctype) ELSE h1
    IN  IF accept # None THEN Put(h2, "accept", accept) ELSE h2

\* reqheaders as assembled for the request; a dict the caller passed is
\* updated in place, None or an empty dict is replaced by a new one
AssembleHeaders(usekey, rh, ctype, accept) ==
    LET h1 == IF usekey # None THEN Put(rh, "authorization", Bearer(usekey)) ELSE rh
        h2 == IF ctype # None THEN Put(h1, "content-type", ctype) ELSE h1
    IN  IF accept # None THEN Put(h2, "accept", accept) ELSE h2

\* the part of doRequest that reads the response
ReadResponse(out) ==
    IF out.t = "resp"
    THEN [status |-> out.status, reason |-> ReasonOf(out.status),
          headers |-> out.headers,
          data |-> IF out.status < 200 \/ out.status >= 300
                   THEN NoData ELSE RawData(out.body)]
    ELSE [status |-> 900, reason |-> out.desc, headers |-> EmptyDict,
          data |-> NoData]

\* a doRequest without the check of lines 223-232
Rejected_Never(u, exthost) == FALSE

\* lines 216-232: the URI is of another scheme or host and exthost is off
Rejected(u, exthost) == Foreign(u) /\ ~exthost

DoRequest(key, rh, u, method, body, ctype, accept, exthost, out) ==
    IF Rejected(u, exthost)
    THEN Raised(IF u.scheme # BaseScheme THEN "URI scheme mismatch"
                ELSE "URI host:port mismatch", <<>>, rh)
    ELSE
      LET hdrs == AssembleHeaders(UseKey(key, u), rh, ctype, accept)
          req  == [conn |-> IF Foreign(u) THEN "throwaway" ELSE "primary",
                   uri |-> u, method |-> method, body |-> body,
                   headers |-> hdrs, delivered |-> out.t # "sendfail",
                   closed |-> Foreign(u) /\ out.t # "sendfail"]
          rh2  == IF rh = EmptyDict THEN rh ELSE hdrs
      IN  IF out.t = "sendfail"
          THEN Raised(out.desc, <<req>>, rh2)
          ELSE LET r == ReadResponse(out)
               IN  Result("none", <<req>>, rh2, r.status, r.reason,
                          r.headers, r.data)

----------------------------------------------------------------------------
(* HTTP_Session.doRequestRDF *)

\* rdflib: does the text parse in the given format, and to which triples
\* (a JSON object without @context is an empty JSON-LD document)
ParseOk(text, fmt) ==
    \/ text \in {"ttl:good", "ttl:body1", "ttl:body2"}
       /\ fmt \in {"n3", "turtle"}
    \/ text = "" /\ fmt \in {"n3", "turtle", "nt"}
    \/ text \in {"json:none", "json:good", "json:bad"} /\ fmt = "jsonld"

\* a triple of an annotation body; a subject starting "_:" is a blank node
Triple(s, p, o) == [s |-> s, p |-> p, o |-> o]

Body1Triples == {Triple("res", "title", "v1"), Triple("_:b1", "title", "v2")}
Body2Triples == {Triple("res", "desc", "v3"), Triple("ro", "title", "v4")}

TriplesOf(text) ==
    CASE text = "ttl:good" -> {"t1"}
      [] text = "ttl:body1" -> Body1Triples
      [] text = "ttl:body2" -> Body2Triples
      [] OTHER -> {}

\* json.loads(data) and the lookup of results[0].text:
\* "error" (ValueError), or the text that replaces data
JsonText(b) ==
    CASE b = "json:none" -> ""
      [] b = "json:good" -> "ttl:good"
      [] b = "json:bad"  -> "garbage"
      [] OTHER -> "error"

HasW3idPrefix(u) == u.kind \in {"w3ro", "w3evo"}

\* the URI text names evo_info, enrichment or folders and ends in .ttl:
\* the URI is fetched once to learn the annotation id
NeedsIdLookup(u) == u.kind = "w3evo"

LibRequest(u) ==
    [conn |-> "library", uri |-> u, method |-> "GET", body |-> None,
     headers |-> EmptyDict, delivered |-> TRUE]

\* the caller's graph object: given = FALSE stands for graph=None
NoGraph == [given |-> FALSE, triples |-> {}]

\* lines 417-420: the rdflib format the body is parsed in; turtle tells
\* that uripath names the search endpoint
BodyFormat(content_type, turtle) ==
    IF turtle THEN "turtle" ELSE RDF_CONTENT_TYPES[content_type]

\* lines 411-436: turn a 2xx response into a graph or a 9xx status;
\* r is (status, reason, headers, data) with the requests sent so far,
\* turtle tells that uripath now names the search endpoint
Negotiate(r, graph, turtle) ==
    IF r.exc # "none" \/ ~(r.status >= 200 /\ r.status < 300)
    THEN [res |-> r, graph |-> graph]
    ELSE IF ~Has(r.headers, "content-type")
    THEN [res |-> Raised("KeyError", r.sent, r.rh), graph |-> graph]
    ELSE
      LET content_type == MediaType(r.headers["content-type"])
      IN  IF content_type \in DOMAIN RDF_CONTENT_TYPES
          THEN LET bodyformat == BodyFormat(content_type, turtle)
                   merged == graph.triples \cup TriplesOf(r.data.raw)
               IN  IF ParseOk(r.data.raw, bodyformat)
                   THEN [res |-> [r EXCEPT !.data = GraphData(merged)],
                         graph |-> [graph EXCEPT !.triples = merged]]
                   ELSE [res |-> [r EXCEPT !.status = 902,
                                    !.reason = "RDF parse failure"],
                         graph |-> graph]
          ELSE [res |-> [r EXCEPT !.status = 901,
                           !.reason = "Non-RDF content-type returned"],
                graph |-> graph]

\* lines 346-404: a w3id URI is looked up at the search endpoint through the
\* requests library; o1 is the outcome of the id lookup, o2 of the search
FetchFromIndex(rh, u, o1, o2) ==
    LET first == IF NeedsIdLookup(u) THEN <<LibRequest(u)>> ELSE <<>>
        sent  == first \o <<LibRequest(IndexUri)>>
    IN  IF NeedsIdLookup(u) /\ o1.t # "resp"
        THEN Raised(o1.desc, first, rh)
        ELSE IF o2.t # "resp"
        THEN Raised(o2.desc, sent, rh)
        ELSE IF JsonText(o2.body) = "error"
        THEN Raised("ValueError", sent, rh)
        ELSE Result("none", sent, rh, o2.status, ReasonOf(o2.status),
                    o2.headers, RawData(JsonText(o2.body)))

DoRequestRDF(key, rh, u, method, body, ctype, exthost, graph, o1, o2) ==
    IF HasW3idPrefix(u)
    THEN Negotiate(FetchFromIndex(rh, u, o1, o2), graph, TRUE)
    ELSE Negotiate(DoRequest(key, rh, u, method, body, ctype,
                             ACCEPT_RDF_CONTENT_TYPES, exthost, o2),
                   graph, FALSE)

----------------------------------------------------------------------------
(* State *)

VARIABLES
    skey,           \* HTTP_Session._key
    primary,        \* HTTP_Session._httpcon: "new", "connected", "closed"
    closes,         \* close() calls made so far
    pc,             \* position of the call in progress
    op,             \* the operation called
    args,           \* its arguments
    rh,             \* the caller's reqheaders dict
    cgraph,         \* the caller's graph object
    uripath,        \* local variable uripath of the redirect followers
    res,            \* (status, reason, headers, data) or the exception
    wire,           \* the requests handed to a connection during the call
    hops,           \* the doRequest/doRequestRDF calls that returned
    got,            \* what the transport gave for the last request
    manifestgraph,  \* ro_remote_metadata.manifestgraph
    dummyfortest,   \* ro_remote_metadata.dummyfortest
    built,          \* "no", "yes", "failed": outcome of the constructor
    fetches,        \* manifest fetches made for this assembler
    loads,          \* _loadManifest calls made on this assembler
    loaded,         \* what the last _loadManifest returned
    first,          \* what the first _loadManifest returned
    baseuri,        \* resolveFileAsUri(roref), the local uri of line 73
    self_rouri,     \* ro_remote_metadata.rouri
    callers,        \* the threads that call the assembler: position, result
    roannotations,  \* ro_remote_metadata.roannotations
    ann,            \* the annotation call in progress and what it gave
    agg,            \* the aggregation call in progress and what it gave
    urifn,          \* a call of a URI predicate: its arguments and result
    splitfn,        \* a call of splitValues: its arguments and result
    linkfn          \* a response read and its links parsed: input and results

httpvars == <<skey, primary, closes, pc, op, args, rh, cgraph, uripath, res,
              wire, hops, got>>
rovars == <<manifestgraph, dummyfortest, built, fetches, loads, loaded, first,
            baseuri, self_rouri, callers>>
annvars == <<roannotations, ann>>
purevars == <<urifn, splitfn, linkfn>>
othervars == <<annvars, agg, purevars>>
vars == <<httpvars, rovars, othervars>>

Ops == {"doRequest", "doRequestFollowRedirect", "doRequestRDF",
        "doRequestRDFFollowRedirect"}
Followers == {"doRequestFollowRedirect", "doRequestRDFFollowRedirect"}
RdfOps == {"doRequestRDF", "doRequestRDFFollowRedirect"}

\* method, body, ctype and accept of the calls made
ReqKinds ==
    {[method |-> "PUT", body |-> "content", ctype |-> "text/plain",
      accept |-> "text/turtle"]}

\* reqheaders the caller passes: None/{} , a slug, an authorization of its own
CallerHeaders ==
    {EmptyDict, Put(EmptyDict, "slug", "res"),
     Put(EmptyDict, "authorization", <<"Basic", "other">>)}

CallerGraphs == {NoGraph, [given |-> TRUE, triples |-> {"t0"}]}

NoArgs == [uri |-> NoUri, method |-> None, body |-> None, ctype |-> None,
           accept |-> None, exthost |-> FALSE, rh |-> EmptyDict,
           graph |-> NoGraph]

\* outcomes of the id lookup of an evo_info/enrichment/folders URI: only
\* whether it raised matters, the id is read from the final URL
IdLookupOutcomes ==
    {Outcome("sendfail", 0, NoUri, <<>>, "", "ConnectionError"),
     Outcome("resp", 200, NoUri, CtTurtle, "ttl:good", "")}

NoLookup == Outcome("resp", 0, NoUri, <<>>, "", "")

NoRes == Raised("none", <<>>, EmptyDict)

NoManifest == [set |-> FALSE, triples |-> {}]

\* the threads that share one assembler
Threads == {"t1", "t2"}

\* a thread that is in no method of the assembler
NotCalling == [pc |-> "out", seen |-> NoManifest]

\* no aggregation call in progress
NoAgg == [op |-> None, exc |-> "none"]

\* no annotation call made yet
NoAnn == [op |-> None, exc |-> "none", graph |-> NoManifest,
          assembled |-> FALSE, read |-> {}, before |-> NoManifest,
          outs |-> EmptyDict, yielded |-> {}, subject |-> None,
          property |-> None]

\* the session and the assembler after construction
InitObjects ==
    /\ skey \in {Token, None}
    /\ primary = "new"
    /\ closes = 0
    /\ pc = "idle"
    /\ op = None
    /\ args = NoArgs
    /\ rh = EmptyDict
    /\ cgraph = NoGraph
    /\ uripath = NoUri
    /\ res = NoRes
    /\ wire = <<>>
    /\ hops = <<>>
    /\ got = NoLookup
    /\ manifestgraph = NoManifest
    /\ roannotations = NoManifest
    /\ ann = NoAnn
    /\ agg = NoAgg
    /\ dummyfortest = FALSE
    /\ built = "no"
    /\ fetches = 0
    /\ loads = 0
    /\ loaded = NoManifest
    /\ first = NoManifest
    /\ baseuri = <<>>
    /\ self_rouri = <<>>
    /\ callers = [t \in Threads |-> NotCalling]

\* no call of a pure function is studied
NoCall == [done |-> FALSE, given |-> FALSE]

Init ==
    /\ InitObjects
    /\ urifn = NoCall
    /\ splitfn = NoCall
    /\ linkfn = NoCall

----------------------------------------------------------------------------
(* Calls on the session *)

\* the outcomes of the exchanges one doRequest/doRequestRDF call can meet:
\* <<id lookup, request>>
Exchanges(o, u) ==
    IF o \in RdfOps /\ HasW3idPrefix(u)
    THEN (IF NeedsIdLookup(u) THEN IdLookupOutcomes ELSE {NoLookup})
         \X LibOutcomes
    ELSE {NoLookup} \X HttpOutcomes

\* one doRequest or doRequestRDF call made by operation o with arguments a,
\* h and g the caller's reqheaders dict and graph as they are now
Perform(o, a, h, g, u, accept, x) ==
    IF o \in RdfOps
    THEN DoRequestRDF(skey, h, u, a.method, a.body, a.ctype, a.exthost,
                      g, x[1], x[2])
    ELSE [res |-> DoRequest(skey, h, u, a.method, a.body, a.ctype, accept,
                            a.exthost, x[2]),
          graph |-> g]

\* the arguments operation o can be called with (doRequestRDF and its
\* follower have no accept parameter)
CallArgs(o) ==
    {[uri |-> u, method |-> k.method, body |-> k.body, ctype |-> k.ctype,
      accept |-> IF o \in RdfOps THEN None ELSE k.accept,
      exthost |-> e, rh |-> h,
      graph |-> g] :
        u \in CallUris, k \in ReqKinds, e \in BOOLEAN, h \in CallerHeaders,
        g \in IF o \in RdfOps THEN CallerGraphs ELSE {NoGraph}}

\* a session whose connection is opened by a request on any connection
Connected_ByAnyRequest(sent) ==
    \E i \in 1..Len(sent) : sent[i].delivered

\* httplib opens the connection when a request is handed to it
Connected(sent) ==
    \E i \in 1..Len(sent) : sent[i].conn = "primary" /\ sent[i].delivered

\* the effect of one doRequest/doRequestRDF call r made for target u under
\* the exchanges x
Record(r, u, x, nextpc) ==
    /\ got' = IF r.res.sent = <<>> THEN NoLookup
              ELSE IF x[1].t # "resp" THEN x[1] ELSE x[2]
    /\ rh' = r.res.rh
    /\ cgraph' = r.graph
    /\ res' = r.res
    /\ wire' = wire \o r.res.sent
    /\ hops' = IF r.res.exc = "none"
               THEN Append(hops, [uri |-> u, status |-> r.res.status,
                                  location |->
                                      IF Has(r.res.headers, "location")
                                      THEN r.res.headers["location"]
                                      ELSE NoUri])
               ELSE hops
    /\ primary' = IF Connected(r.res.sent) THEN "connected" ELSE primary
    /\ pc' = IF r.res.exc = "none" THEN nextpc ELSE "done"

\* a caller invokes operation o: the first (or only) request
Call(o, a, x) ==
    /\ pc = "idle"
    /\ op' = o
    /\ args' = a
    /\ uripath' = a.uri
    /\ Record(Perform(o, a, a.rh, a.graph, a.uri, a.accept, x), a.uri, x,
              IF o \in Followers THEN "hop1" ELSE "done")
    /\ UNCHANGED <<skey, closes, rovars, othervars>>

FirstHopStatuses == {302, 303, 307}
\* a second hop that honours 303 as the first does
SecondHopStatuses_With303 == {302, 303, 307}

SecondHopStatuses == {302, 307}

\* headers["location"] of a response without that header
NoLocation ==
    /\ res' = Raised("KeyError", <<>>, rh)
    /\ pc' = "done"
    /\ UNCHANGED <<rh, cgraph, wire, hops, got, primary, uripath>>

\* lines 300-305 and 468-474: if status in [302,303,307]
FirstRedirect ==
    /\ pc = "hop1"
    /\ IF res.status \in FirstHopStatuses
       THEN IF Has(res.headers, "location")
            THEN LET u == res.headers["location"]
                 IN  /\ uripath' = u
                     /\ \E x \in Exchanges(op, u) :
                          Record(Perform(op, args, rh, cgraph, u, args.accept, x),
                                 u, x, "hop2")
            ELSE NoLocation
       ELSE /\ pc' = "hop2"
            /\ UNCHANGED <<rh, cgraph, res, wire, hops, got, primary, uripath>>
    /\ UNCHANGED <<skey, closes, op, args, rovars, othervars>>

\* lines 306-312 and 475-482: if status in [302,307]; the plain follower
\* passes no accept here
SecondRedirect ==
    /\ pc = "hop2"
    /\ IF res.status \in SecondHopStatuses
       THEN IF Has(res.headers, "location")
            THEN LET u == res.headers["location"]
                 IN  /\ uripath' = u
                     /\ \E x \in Exchanges(op, u) :
                          Record(Perform(op, args, rh, cgraph, u, None, x),
                                 u, x, "done")
            ELSE NoLocation
       ELSE /\ pc' = "done"
            /\ UNCHANGED <<rh, cgraph, res, wire, hops, got, primary, uripath>>
    /\ UNCHANGED <<skey, closes, op, args, rovars, othervars>>

\* the call is over: the caller has the result
Return ==
    /\ pc = "done"
    /\ pc' = "idle"
    /\ op' = None
    /\ args' = NoArgs
    /\ rh' = EmptyDict
    /\ cgraph' = NoGraph
    /\ uripath' = NoUri
    /\ res' = NoRes
    /\ wire' = <<>>
    /\ hops' = <<>>
    /\ got' = NoLookup
    /\ UNCHANGED <<skey, closes, primary, rovars, othervars>>

\* a close that releases the connection and keeps the credential
CloseOp_KeepsKey(s) == [key |-> s.key, con |-> "closed"]

\* HTTP_Session.close on a session with credential s.key and primary
\* connection s.con: httplib's close of a closed or unopened connection
\* does nothing
CloseOp(s) == [key |-> None, con |-> "closed"]

\* a caller invokes close()
Close ==
    /\ pc = "idle"
    /\ closes < MaxCloses
    /\ \E s \in {CloseOp([key |-> skey, con |-> primary])} :
         skey' = s.key /\ primary' = s.con
    /\ closes' = closes + 1
    /\ UNCHANGED <<pc, op, args, rh, cgraph, uripath, res, wire, hops, got,
                   rovars, othervars>>

\* control leaves a with block of the session: after its last statement,
\* or with the error a call in the block raised
ExitWith ==
    /\ pc = "idle" \/ (pc = "done" /\ res.exc # "none")
    /\ closes < MaxCloses
    /\ \E s \in {CloseOp([key |-> skey, con |-> primary])} :
         skey' = s.key /\ primary' = s.con
    /\ closes' = closes + 1
    /\ pc' = "idle"
    /\ op' = None
    /\ args' = NoArgs
    /\ rh' = EmptyDict
    /\ cgraph' = NoGraph
    /\ uripath' = NoUri
    /\ res' = NoRes
    /\ wire' = <<>>
    /\ hops' = <<>>
    /\ got' = NoLookup
    /\ UNCHANGED <<rovars, othervars>>

CallAny ==
    \E o \in Ops : \E a \in CallArgs(o) : \E x \in Exchanges(o, a.uri) :
        Call(o, a, x)

----------------------------------------------------------------------------
(* ro_remote_metadata: the manifest cache *)

\* triples a manifest can hold: the type assertion of the RO, its title,
\* an aggregation, an annotation
ManifestTriples == {"type", "title", "agg", "ann"}

\* what reading the manifest URI gives: a graph, or an exception
ManifestFetches ==
    {[ok |-> TRUE, triples |-> t] : t \in SUBSET ManifestTriples}
    \cup {[ok |-> FALSE, triples |-> {}]}

\* bool(graph): None is false, and an rdflib Graph is false when it holds
\* no triple (Graph defines __len__)
Truthy(g) == g.set /\ g.triples # {}

\* _loadManifest on an assembler whose manifestgraph is g; f is what the
\* fetch gives if one is made
LoadManifestOp(g, dummy, f) ==
    IF Truthy(g)
    THEN [graph |-> g, fetched |-> FALSE, ok |-> TRUE]
    ELSE IF dummy
    THEN [graph |-> [set |-> TRUE, triples |-> {"type"}], fetched |-> FALSE,
          ok |-> TRUE]
    ELSE IF f.ok
    THEN [graph |-> [set |-> TRUE, triples |-> f.triples], fetched |-> TRUE,
          ok |-> TRUE]
    ELSE [graph |-> [set |-> TRUE, triples |-> {}], fetched |-> TRUE,
          ok |-> FALSE]

\* the absolute URIs a base reference resolves to, and the subjects a
\* manifest gives to its ResearchObject type assertion
BaseUris == {<<"http", ":", "/", "/", "srv", "/", "ro">>,
             <<"http", ":", "/", "/", "srv", "/", "ro", "/">>}
ManifestSubjects == BaseUris \cup {<<"http", ":", "/", "/", "srv", "/", "x">>}

\* line 74
TrailingSlash(uri) == IF uri[Len(uri)] = "/" THEN uri ELSE uri \o <<"/">>

\* line 81: manifestgraph.value(None, RDF.type, RO.ResearchObject), <<>> for
\* the None it gives when the graph holds no such statement; computed is
\* the rouri of line 75, the subject of the statement line 89 adds
TypeSubject(g, dummy, computed, subject) ==
    IF "type" \notin g.triples THEN <<>>
    ELSE IF dummy THEN computed ELSE subject

\* ro_remote_metadata.__init__: the first _loadManifest; an exception leaves
\* the caller without an assembler. uri is what roref resolves to, subject
\* the subject of the type assertion of the manifest fetched, if it has one
Construct(d, f, uri, subject) ==
    /\ built # "yes"
    /\ baseuri' = uri
    /\ LET r == LoadManifestOp(NoManifest, d, f)
       IN  /\ manifestgraph' = r.graph
           /\ fetches' = IF r.fetched THEN 1 ELSE 0
           /\ built' = IF r.ok THEN "yes" ELSE "failed"
           /\ loaded' = IF r.ok THEN r.graph ELSE NoManifest
           /\ first' = IF r.ok THEN r.graph ELSE NoManifest
           /\ self_rouri' = IF r.ok
                       THEN TypeSubject(r.graph, d, TrailingSlash(uri), subject)
                       ELSE TrailingSlash(uri)
    /\ dummyfortest' = d
    /\ loads' = 1
    /\ UNCHANGED <<callers, httpvars, othervars>>

\* a later _loadManifest call (from _loadAnnotations or a caller)
LoadManifest(f) ==
    /\ built = "yes"
    /\ loads < MaxLoads
    /\ LET r == LoadManifestOp(manifestgraph, dummyfortest, f)
       IN  /\ manifestgraph' = r.graph
           /\ fetches' = IF r.fetched THEN fetches + 1 ELSE fetches
           /\ loaded' = IF r.ok THEN r.graph ELSE NoManifest
    /\ loads' = loads + 1
    /\ UNCHANGED <<dummyfortest, built, first, baseuri, self_rouri, callers,
                   httpvars, othervars>>

ConstructAny ==
    \E d \in BOOLEAN : \E f \in ManifestFetches :
        \E uri \in BaseUris : \E subject \in ManifestSubjects :
            Construct(d, f, uri, subject)

LoadManifestAny == \E f \in ManifestFetches : LoadManifest(f)

----------------------------------------------------------------------------
(* ro_remote_metadata: the annotation graph *)

\* the annotations a manifest can declare; each name stands for the
\* ro:annotatesAggregatedResource and ao:body statements of one node
AnnotationNodes == {"ann", "ann2"}

\* the manifests read when the annotation graph is studied
AnnManifestFetches ==
    {[ok |-> TRUE, triples |-> {"type"} \cup t] : t \in SUBSET AnnotationNodes}

\* the (ann_node, subject) pairs of line 101
Annotations(g) == g.triples \cap AnnotationNodes

\* manifestgraph.value(subject=ann_node, predicate=AO.body)
BodyUri(a) == IF a = "ann" THEN OwnA ELSE OwnB

BodyText(a) == IF a = "ann" THEN "ttl:body1" ELSE "ttl:body2"

\* what the service gives for the body of annotation a: transport faults,
\* a non-2xx status, the body as RDF, an empty RDF document, RDF that does
\* not parse, a body that is not RDF
AnnOutcomes(a) ==
    {Outcome("sendfail", 0, NoUri, <<>>, "", "Connection refused"),
     Outcome("recvfail", 0, NoUri, <<>>, "", "timed out"),
     Outcome("resp", 404, NoUri, CtPlain, "garbage", ""),
     Outcome("resp", 200, NoUri, CtTurtle, BodyText(a), ""),
     Outcome("resp", 200, NoUri, CtTurtle, "", ""),
     Outcome("resp", 200, NoUri, CtTurtle, "garbage", ""),
     Outcome("resp", 200, NoUri, CtPlain, BodyText(a), "")}

\* the dereference of one body gave a graph
Dereferenced(r) ==
    r.res.exc = "none" /\ r.res.status >= 200 /\ r.res.status < 300

\* _readAnnotationBody(ann_uri, anngr): the body is read through
\* doRequestRDF into anngr; a failure is logged and leaves anngr as it was
ReadAnnotationBody(key, annotationuri, anngr, out) ==
    LET r == DoRequestRDF(key, EmptyDict, annotationuri, "GET", None, None,
                          FALSE, [given |-> TRUE, triples |-> anngr],
                          NoLookup, out)
    IN  IF Dereferenced(r) THEN [ok |-> TRUE, triples |-> r.graph.triples]
        ELSE [ok |-> FALSE, triples |-> anngr]

\* a loop that ends at the first body that cannot be dereferenced
RECURSIVE ReadBodies_StopAtFailure(_, _, _, _)
ReadBodies_StopAtFailure(key, todo, anngr, outs) ==
    IF todo = {} THEN anngr
    ELSE LET a == CHOOSE x \in todo : TRUE
             g == ReadAnnotationBody(key, BodyUri(a), anngr, outs[a])
         IN  IF ~g.ok THEN anngr
             ELSE ReadBodies_StopAtFailure(key, todo \ {a}, g.triples, outs)

\* the loop of lines 101-103 over the annotations in todo
RECURSIVE ReadBodies(_, _, _, _)
ReadBodies(key, todo, anngr, outs) ==
    IF todo = {} THEN anngr
    ELSE LET a == CHOOSE x \in todo : TRUE
             g == ReadAnnotationBody(key, BodyUri(a), anngr, outs[a])
         IN  ReadBodies(key, todo \ {a}, g.triples, outs)

\* _loadAnnotations on an assembler whose roannotations is ra and whose
\* manifestgraph is mg; f is what a manifest fetch gives, outs what the
\* service gives for each body
LoadAnnotationsOp(key, mg, dummy, ra, f, outs) ==
    IF Truthy(ra)
    THEN [graph |-> ra, manifest |-> mg, assembled |-> FALSE, read |-> {},
          loaded |-> FALSE, fetched |-> FALSE, ok |-> TRUE]
    ELSE LET m == LoadManifestOp(mg, dummy, f)
         IN  IF ~m.ok
             THEN [graph |-> ra, manifest |-> m.graph, assembled |-> FALSE,
                   read |-> {}, loaded |-> TRUE, fetched |-> m.fetched,
                   ok |-> FALSE]
             ELSE [graph |-> [set |-> TRUE,
                              triples |-> ReadBodies(key, Annotations(m.graph),
                                                     {}, outs)],
                   manifest |-> m.graph, assembled |-> TRUE,
                   read |-> Annotations(m.graph), loaded |-> TRUE,
                   fetched |-> m.fetched, ok |-> TRUE]

BNodes == {"_:b1"}

\* isinstance(s, rdflib.BNode)
IsBNode(s) == s \in BNodes

\* graph.triples((subject, property, None)): None matches anything
Matching(triples, subject, property) ==
    {t \in triples : /\ subject \in {None, t.s}
                     /\ property \in {None, t.p}}

\* an iterator that yields every matching triple
IterateAnnotationsOp_Unfiltered(triples, subject, property) ==
    Matching(triples, subject, property)

\* the triples iterateAnnotations yields from the graph _loadAnnotations gave
IterateAnnotationsOp(triples, subject, property) ==
    {t \in Matching(triples, subject, property) : ~IsBNode(t.s)}

Subjects == {None, "res", "_:b1"}
Properties == {None, "title"}

\* the body outcomes that can matter to a call: none when the graph is not
\* assembled
OutcomesFor(mg, ra) ==
    IF Truthy(ra) THEN {EmptyDict}
    ELSE LET as == Annotations(mg)
         IN  {o \in [as -> UNION {AnnOutcomes(a) : a \in as}] :
                 \A a \in as : o[a] \in AnnOutcomes(a)}

\* one call of _loadAnnotations, iterateAnnotations or queryAnnotations:
\* each starts with _loadAnnotations (lines 96, 578, 622); the manifest is
\* not empty here, so the _loadManifest of line 99 fetches nothing
AnnCall(o, subject, property, outs) ==
    /\ built = "yes"
    /\ Truthy(manifestgraph)
    /\ ann.op = None
    /\ Truthy(roannotations) \/ loads < MaxLoads
    /\ \E r \in {LoadAnnotationsOp(skey, manifestgraph, dummyfortest,
                                    roannotations, [ok |-> FALSE,
                                                    triples |-> {}], outs)} :
           /\ roannotations' = r.graph
           /\ manifestgraph' = r.manifest
           /\ loads' = IF r.loaded THEN loads + 1 ELSE loads
           /\ fetches' = IF r.fetched THEN fetches + 1 ELSE fetches
           /\ loaded' = IF ~r.loaded THEN loaded
                        ELSE IF r.ok THEN r.manifest ELSE NoManifest
           /\ ann' = [op |-> o,
                      exc |-> IF r.ok THEN "none" ELSE "IOError",
                      graph |-> IF r.ok THEN r.graph ELSE NoManifest,
                      assembled |-> r.assembled,
                      read |-> r.read,
                      before |-> roannotations,
                      outs |-> outs,
                      yielded |->
                          IF ~r.ok THEN {}
                          ELSE IF o = "iterateAnnotations"
                          THEN IterateAnnotationsOp(r.graph.triples, subject,
                                                    property)
                          ELSE IF o = "queryAnnotations"
                          THEN Matching(r.graph.triples, subject, property)
                          ELSE {},
                      subject |-> subject, property |-> property]
    /\ UNCHANGED <<dummyfortest, built, first, baseuri, self_rouri, callers,
                   httpvars, agg, purevars>>

LoadAnnotations ==
    \E outs \in OutcomesFor(manifestgraph, roannotations) :
        AnnCall("_loadAnnotations", None, None, outs)

IterateAnnotations ==
    \E outs \in OutcomesFor(manifestgraph, roannotations) :
    \E subject \in Subjects : \E property \in Properties :
        AnnCall("iterateAnnotations", subject, property, outs)

\* a SELECT of the triples with the given subject
QueryAnnotations ==
    \E outs \in OutcomesFor(manifestgraph, roannotations) :
    \E subject \in {None, "res"} :
        AnnCall("queryAnnotations", subject, None, outs)

\* the caller has the result of the annotation call
AnnReturn ==
    /\ ann.op # None
    /\ ann' = NoAnn
    /\ UNCHANGED <<roannotations, rovars, httpvars, agg, purevars>>

\* between two calls the caller adds an annotation to the graph
\* _getRoManifestGraph returned
ManifestChanged ==
    /\ built = "yes"
    /\ manifestgraph.set
    /\ ann.op = None
    /\ roannotations.set
    /\ \E t \in AnnotationNodes \ manifestgraph.triples :
        \E g \in {[manifestgraph EXCEPT !.triples = @ \cup {t}]} :
            /\ manifestgraph' = g
            /\ loaded' = IF loaded = manifestgraph THEN g ELSE loaded
            /\ first' = IF first = manifestgraph THEN g ELSE first
    /\ UNCHANGED <<dummyfortest, built, fetches, loads, baseuri, self_rouri,
                   callers, othervars, httpvars>>

ConstructAnnotated ==
    \E d \in BOOLEAN : \E f \in AnnManifestFetches :
        Construct(d, f, <<"http", ":", "/", "/", "srv", "/", "ro">>,
                  <<"http", ":", "/", "/", "srv", "/", "ro", "/">>)

NextAnn ==
    \/ ConstructAnnotated
    \/ LoadAnnotations
    \/ IterateAnnotations
    \/ QueryAnnotations
    \/ AnnReturn
    \/ ManifestChanged

SpecAnn == Init /\ [][NextAnn]_vars

----------------------------------------------------------------------------
(* ro_remote_metadata: the aggregation protocol *)

RoUri == Uri("http", "srv", "/ro/", "plain")
ProxyUri == Uri("http", "srv", "/ro/.proxy/1", "plain")
ResUri == Uri("http", "srv", "/ro/res", "plain")

ProxyFor == "http://www.openarchives.org/ore/terms/proxyFor"
ProxyCtype == "application/vnd.wf4ever.proxy"

\* a Link header as received: its target and its rel parameter
Link(u, rel) == <<"link", [uri |-> u, rel |-> rel]>>

\* the (name, value) pairs of the Link headers a response can carry: none,
\* a proxyFor link to a resource of the RO, a link of another relation,
\* a proxyFor link to a resource elsewhere
HeaderLists ==
    {<<>>, <<Link(ResUri, ProxyFor)>>, <<Link(ResUri, "describedby")>>,
     <<Link(ExtUri, ProxyFor)>>}

\* parseLinks(headers): the links of headers["_headerlist"] keyed by
\* relation, a later link replacing an earlier one of the same relation
RECURSIVE LinksOf(_)
LinksOf(headerlist) ==
    IF headerlist = <<>> THEN EmptyDict
    ELSE LET n == Len(headerlist)
             links == LinksOf(SubSeq(headerlist, 1, n - 1))
         IN  IF headerlist[n][1] = "link"
             THEN Put(links, headerlist[n][2].rel, headerlist[n][2].uri)
             ELSE links

ParseLinks(headers) == LinksOf(headers["_headerlist"])

\* a response of the service to a request of the aggregation protocol
AggOutcome(status, loc, headerlist) ==
    [t |-> "resp", status |-> status,
     headers |-> Put(MkHeaders(loc, <<>>), "_headerlist", headerlist),
     body |-> "", desc |-> ""]

TransportFaults ==
    {Outcome("sendfail", 0, NoUri, <<>>, "", "Connection refused"),
     Outcome("recvfail", 0, NoUri, <<>>, "", "timed out")}

\* what the POST of a proxy can give
PostOutcomes ==
    TransportFaults
    \cup {AggOutcome(201, l, h) : l \in {NoUri, ProxyUri}, h \in HeaderLists}
    \cup {AggOutcome(200, ProxyUri, <<Link(ResUri, ProxyFor)>>),
          AggOutcome(404, NoUri, <<>>)}

\* what the PUT of resource content can give
PutOutcomes ==
    TransportFaults
    \cup {AggOutcome(st, NoUri, <<>>) : st \in {200, 201, 204, 404}}

NoOutcome == AggOutcome(0, NoUri, <<>>)

\* the proxy description posted: proxyfor is NoUri for an empty proxy
ProxyData(proxyfor) == [kind |-> "proxy", proxyFor |-> proxyfor]

\* "%d03 %s (%s)"%(status, reason, path)
Formatted(status, reason, path) ==
    [fmt |-> "%d03 %s (%s)", status |-> status, reason |-> reason,
     path |-> path]

\* "Proxy URI %s"%str(proxyuri)
ProxyText(proxyuri) == [fmt |-> "Proxy URI %s", uri |-> proxyuri]

\* the call returned ret after handing the requests sent to a connection
AggReturned(sent, ret) ==
    [exc |-> "none", msg |-> "", value |-> [fmt |-> ""], sent |-> sent,
     ret |-> ret]

\* the call raised; self.error(msg, value) gives an HTTP_Error
AggRaised(exc, msg, value, sent) ==
    [exc |-> exc, msg |-> msg, value |-> value, sent |-> sent,
     ret |-> [status |-> 0]]

\* an exception of doRequest that the method lets through
Propagated(r, sent) == AggRaised(r.exc, "", [fmt |-> ""], sent)

\* a content PUT that must be answered 201
CreatedStatuses_Only201 == {201}

\* the statuses of the PUT with which aggregateResourceInt returns
CreatedStatuses == {200, 201}

AggregateResourceIntOp(key, rouri, respath, ctype, body, o1, o2) ==
    LET post == DoRequest(key, Put(EmptyDict, "slug", respath), rouri, "POST",
                          ProxyData(NoUri), ProxyCtype, None, FALSE, o1)
    IN  IF post.exc # "none" THEN Propagated(post, post.sent)
        ELSE IF post.status # 201
        THEN AggRaised("HTTP_Error", "Error creating aggregation proxy",
                       Formatted(post.status, post.reason, respath),
                       post.sent)
        ELSE IF ~Has(post.headers, "location")
        THEN AggRaised("KeyError", "location", [fmt |-> ""], post.sent)
        ELSE IF ~Has(ParseLinks(post.headers), ProxyFor)
        THEN AggRaised("HTTP_Error",
                       "No ore:proxyFor link in create proxy response",
                       ProxyText(post.headers["location"]), post.sent)
        ELSE
          LET proxyuri == post.headers["location"]
              resuri == ParseLinks(post.headers)[ProxyFor]
              put == DoRequest(key, EmptyDict, resuri, "PUT", body, ctype,
                               None, FALSE, o2)
              sent == post.sent \o put.sent
          IN  IF put.exc # "none" THEN Propagated(put, sent)
              ELSE IF put.status \notin CreatedStatuses
              THEN AggRaised("HTTP_Error",
                             "Error creating aggregated resource content",
                             Formatted(put.status, put.reason, respath), sent)
              ELSE AggReturned(sent, [status |-> put.status,
                                      reason |-> put.reason,
                                      proxyuri |-> proxyuri,
                                      resuri |-> resuri])

\* an update that takes 201 for success as the creation does
UpdatedStatuses_With201 == {200, 201}

\* the statuses of the PUT with which updateResourceInt returns
UpdatedStatuses == {200}

UpdateResourceIntOp(key, resuri, ctype, body, o) ==
    LET put == DoRequest(key, EmptyDict, resuri, "PUT", body, ctype, None,
                         FALSE, o)
    IN  IF put.exc # "none" THEN Propagated(put, put.sent)
        ELSE IF put.status \notin UpdatedStatuses
        THEN AggRaised("HTTP_Error",
                       "Error updating aggregated resource content",
                       Formatted(put.status, put.reason, resuri), put.sent)
        ELSE AggReturned(put.sent, [status |-> put.status,
                                    reason |-> put.reason,
                                    headers |-> put.headers,
                                    resuri |-> resuri])

AggregateResourceExtOp(key, rouri, resuri, o) ==
    LET post == DoRequest(key, EmptyDict, rouri, "POST", ProxyData(resuri),
                          ProxyCtype, None, FALSE, o)
    IN  IF post.exc # "none" THEN Propagated(post, post.sent)
        ELSE IF post.status # 201
        THEN AggRaised("HTTP_Error", "Error creating aggregation proxy",
                       Formatted(post.status, post.reason, resuri), post.sent)
        ELSE IF ~Has(post.headers, "location")
        THEN AggRaised("KeyError", "location", [fmt |-> ""], post.sent)
        ELSE AggReturned(post.sent, [status |-> post.status,
                                     reason |-> post.reason,
                                     proxyuri |-> post.headers["location"],
                                     resuri |-> resuri])

\* what a method without a return statement gives: None
ReturnedNone == [status |-> 0, isnone |-> TRUE]

\* lines 334-357: the body is a docstring followed by comment lines, so the
\* method sends nothing and returns None
DeaggregateResourceOp(key, rouri, resuri) == AggReturned(<<>>, ReturnedNone)

ResPaths == {"res", "data/f.txt"}
ContentTypes == {"application/octet-stream", "text/plain"}
\* resources the service holds for the RO
InternalUris == {ResUri, OwnA}
\* resources held elsewhere
ExternalUris == {ExtUri, TlsUri}

\* the call is made: r is its result, o1 and o2 what the service gave
AggCall(o, a, r, o1, o2) ==
    /\ agg.op = None
    /\ agg' = [op |-> o, args |-> a, exc |-> r.exc, msg |-> r.msg,
               value |-> r.value, sent |-> r.sent, ret |-> r.ret,
               o1 |-> o1, o2 |-> o2]
    /\ primary' = IF Connected(r.sent) THEN "connected" ELSE primary
    /\ UNCHANGED <<skey, closes, pc, op, args, rh, cgraph, uripath, res,
                   wire, hops, got, rovars, annvars, purevars>>

AggregateResourceInt ==
    \E respath \in ResPaths : \E ctype \in ContentTypes :
    \E o1 \in PostOutcomes : \E o2 \in PutOutcomes :
    \E r \in {AggregateResourceIntOp(skey, RoUri, respath, ctype, "content",
                                     o1, o2)} :
        AggCall("aggregateResourceInt",
                [rouri |-> RoUri, respath |-> respath, ctype |-> ctype,
                 body |-> "content"],
                r, o1, IF Len(r.sent) = 2 THEN o2 ELSE NoOutcome)

UpdateResourceInt ==
    \E resuri \in InternalUris : \E ctype \in ContentTypes :
    \E o \in PutOutcomes :
    \E r \in {UpdateResourceIntOp(skey, resuri, ctype, "content", o)} :
        AggCall("updateResourceInt",
                [resuri |-> resuri, ctype |-> ctype, body |-> "content"],
                r, o, NoOutcome)

AggregateResourceExt ==
    \E resuri \in ExternalUris : \E o \in PostOutcomes :
    \E r \in {AggregateResourceExtOp(skey, RoUri, resuri, o)} :
        AggCall("aggregateResourceExt",
                [rouri |-> RoUri, resuri |-> resuri], r, o, NoOutcome)

DeaggregateResource ==
    \E resuri \in InternalUris \cup ExternalUris :
    \E r \in {DeaggregateResourceOp(skey, RoUri, resuri)} :
        AggCall("deaggregateResource",
                [rouri |-> RoUri, resuri |-> resuri], r, NoOutcome, NoOutcome)

\* the caller has the result of the aggregation call
AggReturn ==
    /\ agg.op # None
    /\ agg' = NoAgg
    /\ UNCHANGED <<httpvars, rovars, annvars, purevars>>

NextAgg ==
    \/ AggregateResourceInt
    \/ UpdateResourceInt
    \/ AggregateResourceExt
    \/ DeaggregateResource
    \/ AggReturn

SpecAgg == Init /\ [][NextAgg]_vars

----------------------------------------------------------------------------
(* ro_remote_metadata: predicates on URIs *)

\* length of the URI texts drawn
MaxUriLen == 3

\* URI texts: strings over three characters
UriChars == {"r", "/", "a"}
UriTexts == UNION {[1..n -> UriChars] : n \in 0..MaxUriLen}

\* str.startswith
StartsWith(s, prefix) ==
    Len(prefix) <= Len(s) /\ SubSeq(s, 1, Len(prefix)) = prefix

IsInternalResourceOp(rouri, resuri) == StartsWith(rouri, resuri)

\* URI text as a sequence of tokens: names, the colon and the slash
UriTokens == {"http", "file", "srv", "ro", "x", ":", "/"}
TokenTexts == UNION {[1..n -> UriTokens] : n \in 0..MaxUriLen}

\* RO URIs: with the trailing slash line 74 adds, as the manifest may name
\* it (line 81), and of a local RO
RoSlash == <<"http", ":", "/", "/", "srv", "/", "ro", "/">>
RoTexts == {RoSlash, <<"http", ":", "/", "/", "srv", "/", "ro">>,
            <<"file", ":", "/", "/", "/", "ro", "/">>}

\* resource URIs and paths: short texts, the RO URIs, and texts under the RO
RefTexts == TokenTexts \cup RoTexts \cup {RoSlash \o t : t \in TokenTexts}

\* str.find(c) from position i, positions counted from 1, 0 if not found
RECURSIVE Find(_, _, _)
Find(txt, c, i) ==
    IF i > Len(txt) THEN 0
    ELSE IF txt[i] = c THEN i ELSE Find(txt, c, i + 1)

\* txt[n:]
Drop(txt, n) == SubSeq(txt, n + 1, Len(txt))

\* urlparse.urlsplit(url, default): the scheme is what stands before the
\* first colon if that is made of scheme characters only, the netloc what
\* follows // up to the next slash (no query or fragment is drawn)
UrlSplit(url, default) ==
    LET i == Find(url, ":", 1)
        named == i > 1 /\ \A k \in 1..(i - 1) : url[k] \notin {":", "/"}
        rest == IF named THEN Drop(url, i) ELSE url
        slashes == Len(rest) >= 2 /\ rest[1] = "/" /\ rest[2] = "/"
        j == Find(rest, "/", 3)
    IN  [scheme |-> IF named THEN SubSeq(url, 1, i - 1) ELSE default,
         netloc |-> IF ~slashes THEN <<>>
                    ELSE IF j = 0 THEN Drop(rest, 2)
                    ELSE SubSeq(rest, 3, j - 1),
         path |-> IF ~slashes THEN rest
                  ELSE IF j = 0 THEN <<>> ELSE Drop(rest, j - 1)]

\* urlparse.uses_relative and uses_netloc, for the schemes drawn
UsesRelative(scheme) == scheme \in {<<>>, <<"http">>, <<"file">>}
UsesNetloc(scheme) == scheme \in {<<>>, <<"http">>, <<"file">>}

\* urlparse.urlunsplit
UrlUnsplit(u) ==
    LET url == IF \/ u.netloc # <<>>
                  \/ /\ u.scheme # <<>>
                     /\ UsesNetloc(u.scheme)
                     /\ ~(Len(u.path) >= 2 /\ u.path[1] = "/"
                                           /\ u.path[2] = "/")
               THEN <<"/", "/">> \o u.netloc
                    \o (IF u.path # <<>> /\ u.path[1] # "/"
                        THEN <<"/">> \o u.path ELSE u.path)
               ELSE u.path
    IN  IF u.scheme # <<>> THEN u.scheme \o <<":">> \o url ELSE url

\* bpath.split('/')[:-1] joined again: the path up to its last slash
RECURSIVE DirOf(_)
DirOf(path) ==
    IF path = <<>> \/ path[Len(path)] = "/" THEN path
    ELSE DirOf(SubSeq(path, 1, Len(path) - 1))

\* urlparse.urljoin(base, url) (no dot segments are drawn)
UrlJoin(base, url) ==
    IF url = <<>> THEN base
    ELSE IF base = <<>> THEN url
    ELSE
      LET b == UrlSplit(base, <<>>)
          u == UrlSplit(url, b.scheme)
      IN  IF u.scheme # b.scheme \/ ~UsesRelative(u.scheme) THEN url
          ELSE IF UsesNetloc(u.scheme) /\ u.netloc # <<>> THEN UrlUnsplit(u)
          ELSE LET netloc == IF UsesNetloc(u.scheme) THEN b.netloc
                             ELSE u.netloc
               IN  IF u.path # <<>> /\ u.path[1] = "/"
                   THEN UrlUnsplit([u EXCEPT !.netloc = netloc])
                   ELSE IF u.path = <<>>
                   THEN UrlUnsplit([u EXCEPT !.netloc = netloc,
                                             !.path = b.path])
                   ELSE UrlUnsplit([u EXCEPT !.netloc = netloc,
                                             !.path = DirOf(b.path) \o u.path])

\* a test that takes any named scheme for external
IsExternalResourceOp_AnyScheme(resuri) == UrlSplit(resuri, <<>>).scheme # <<>>

\* lines 246-252
IsExternalResourceOp(resuri) ==
    UrlSplit(resuri, <<>>).scheme \in {<<"http">>, <<"https">>}

\* line 691
GetComponentUri(rouri, path) == UrlJoin(rouri, path)

\* lines 693-700
GetComponentUriRel(rouri, path) ==
    LET file_uri == UrlUnsplit(UrlSplit(GetComponentUri(rouri, path), <<>>))
        ro_uri == UrlUnsplit(UrlSplit(rouri, <<>>))
    IN  IF StartsWith(file_uri, ro_uri) THEN Drop(file_uri, Len(ro_uri))
        ELSE path

InitUri ==
    /\ InitObjects
    /\ urifn \in
         {[done |-> FALSE, given |-> TRUE, call |-> "internal", rouri |-> ro,
           resuri |-> re] : ro \in UriTexts, re \in UriTexts}
         \cup
         {[done |-> FALSE, given |-> TRUE, call |-> c, rouri |-> ro,
           resuri |-> re] : c \in {"classify", "component"},
                            ro \in RoTexts, re \in RefTexts}
    /\ splitfn = NoCall
    /\ linkfn = NoCall

\* both predicates are asked about one resource URI
Classify ==
    /\ urifn.given
    /\ ~urifn.done
    /\ urifn.call = "classify"
    /\ urifn' = [urifn EXCEPT !.done = TRUE] @@
                 [name |-> "classify",
                  internal |-> IsInternalResourceOp(urifn.rouri, urifn.resuri),
                  external |-> IsExternalResourceOp(urifn.resuri)]
    /\ UNCHANGED <<httpvars, rovars, annvars, agg, splitfn, linkfn>>

\* getComponentUri(path), getComponentUriRel(path) and getComponentUri of
\* the latter's result, on an assembler whose RO URI is rouri
ComponentUris ==
    /\ urifn.given
    /\ ~urifn.done
    /\ urifn.call = "component"
    /\ \E rel \in {GetComponentUriRel(urifn.rouri, urifn.resuri)} :
         urifn' = [urifn EXCEPT !.done = TRUE] @@
                  [name |-> "getComponentUriRel",
                   resolved |-> GetComponentUri(urifn.rouri, urifn.resuri),
                   rel |-> rel,
                   back |-> GetComponentUri(urifn.rouri, rel)]
    /\ UNCHANGED <<httpvars, rovars, annvars, agg, splitfn, linkfn>>

IsInternalResource ==
    /\ urifn.given
    /\ ~urifn.done
    /\ urifn.call = "internal"
    /\ urifn' = [urifn EXCEPT !.done = TRUE] @@
                 [name |-> "isInternalResource",
                  out |-> IsInternalResourceOp(urifn.rouri, urifn.resuri)]
    /\ UNCHANGED <<httpvars, rovars, annvars, agg, splitfn, linkfn>>

NextUri == IsInternalResource \/ Classify \/ ComponentUris

SpecUri == InitUri /\ [][NextUri]_vars

----------------------------------------------------------------------------
(* splitValues *)

\* length of the header values drawn
MaxLen == 4

\* header values: strings over a letter, the separator, the quote, the
\* angle brackets and the backslash
Chars == {"a", ",", "\"", "<", ">", "\\"}
Texts == UNION {[1..n -> Chars] : n \in 0..MaxLen}

\* (sep, lq, rq) as the callers give them: the defaults, and angle
\* brackets as the only pair
SplitArgs ==
    {[sep |-> <<",">>, lq |-> <<"\"", "<">>, rq |-> <<"\"", ">">>],
     [sep |-> <<",">>, lq |-> <<"<">>, rq |-> <<">">>]}

\* c in s, for a character c and a string s
In(c, s) == \E i \in 1..Len(s) : s[i] = c

\* s.index(c)
IndexOf(s, c) == CHOOSE i \in 1..Len(s) : s[i] = c /\ \A j \in 1..(i - 1) : s[j] # c

\* txt[cursor], cursor counted from 0
At(txt, cursor) == txt[cursor + 1]

\* txt[b:e]
Slice(txt, b, e) ==
    SubSeq(txt, b + 1, IF e < Len(txt) THEN e ELSE Len(txt))

\* rq[lq.index(txt[cursor])]
EndQuote(lq, rq, c) == rq[IndexOf(lq, c)]

\* a scan that takes the backslash for an ordinary character
Skipped_NoEscape(c) == 1

\* the characters one round of the inner loop passes (lines 47-48)
Skipped(c) == IF c = "\\" THEN 2 ELSE 1

\* the inner loop of lines 46-48: the cursor when it ends
RECURSIVE SkipQuoted(_, _, _)
SkipQuoted(txt, cursor, eq) ==
    IF cursor < Len(txt) /\ At(txt, cursor) # eq
    THEN SkipQuoted(txt, cursor + Skipped(At(txt, cursor)), eq)
    ELSE cursor

\* a final step that leaves an empty last segment out
FinalSegment_UnlessEmpty(txt, begseg, cursor, result) ==
    IF begseg >= Len(txt) THEN result
    ELSE Append(result, Slice(txt, begseg, cursor))

\* lines 57-58: the final segment is appended
FinalSegment(txt, begseg, cursor, result) ==
    Append(result, Slice(txt, begseg, cursor))

\* a scan that takes up again after the opening character of a span that
\* is not closed
AfterSpan_Rewind(txt, opened, c1) ==
    IF c1 < Len(txt) THEN c1 + 1 ELSE opened + 1

\* lines 49-50: the closing character is skipped if there is one; opened is
\* the cursor of the opening character, c1 the cursor after the inner loop
AfterSpan(txt, opened, c1) ==
    IF c1 < Len(txt) THEN c1 + 1 ELSE c1

\* lines 42-56: one round of the outer loop
Iterate(txt, a, cursor, begseg, result) ==
    IF In(At(txt, cursor), a.lq)
    THEN LET eq == EndQuote(a.lq, a.rq, At(txt, cursor))
             c1 == SkipQuoted(txt, cursor + 1, eq)
         IN  [cursor |-> AfterSpan(txt, cursor, c1), begseg |-> begseg,
              result |-> result]
    ELSE IF In(At(txt, cursor), a.sep)
    THEN [cursor |-> cursor + 1, begseg |-> cursor + 1,
          result |-> Append(result, Slice(txt, begseg, cursor))]
    ELSE [cursor |-> cursor + 1, begseg |-> begseg, result |-> result]

\* the outer loop of lines 41-56 from the given cursor on
RECURSIVE Scan(_, _, _, _, _)
Scan(txt, a, cursor, begseg, result) ==
    IF cursor >= Len(txt) THEN FinalSegment(txt, begseg, cursor, result)
    ELSE LET n == Iterate(txt, a, cursor, begseg, result)
         IN  Scan(txt, a, n.cursor, n.begseg, n.result)

SplitValues(txt, a) == Scan(txt, a, 0, 0, <<>>)

InitSplit ==
    /\ InitObjects
    /\ urifn = NoCall
    /\ splitfn \in {[done |-> FALSE, given |-> TRUE, txt |-> t] :
                        t \in Texts}
    /\ linkfn = NoCall

SplitValuesCall ==
    /\ splitfn.given
    /\ ~splitfn.done
    /\ \E a \in SplitArgs :
           splitfn' = [splitfn EXCEPT !.done = TRUE] @@
                      [args |-> a, out |-> SplitValues(splitfn.txt, a)]
    /\ UNCHANGED <<httpvars, rovars, annvars, agg, urifn, linkfn>>

NextSplit == SplitValuesCall

SpecSplit == InitSplit /\ [][NextSplit]_vars

----------------------------------------------------------------------------
(* doRequest's response headers and parseLinks, on header text *)

\* number of link values in the headers of one response
MaxLinks == 2

\* re \s* from position i (counted from 1): the position it stops at
RECURSIVE SkipSpace(_, _)
SkipSpace(txt, i) ==
    IF i <= Len(txt) /\ txt[i] = " " THEN SkipSpace(txt, i + 1) ELSE i

\* re [^>]*> from position i: the position of the first ">", 0 if none
RECURSIVE FindClose(_, _)
FindClose(txt, i) ==
    IF i > Len(txt) THEN 0
    ELSE IF txt[i] = ">" THEN i ELSE FindClose(txt, i + 1)

\* the literal word stands in txt at position i
StartsAt(txt, i, word) ==
    /\ i + Len(word) - 1 <= Len(txt)
    /\ SubSeq(txt, i, i + Len(word) - 1) = word

\* a match that takes a first part without angle brackets for the URI
MatchUri_Bare(part) ==
    LET i == SkipSpace(part, 1)
    IN  IF i <= Len(part) /\ part[i] = "<" /\ FindClose(part, i + 1) # 0
        THEN [ok |-> TRUE,
              group |-> SubSeq(part, i + 1, FindClose(part, i + 1) - 1)]
        ELSE [ok |-> TRUE, group |-> part]

\* re.match(r'\s*<([^>]*)>\s*', linkparts[0]) (line 83): whether it matched
\* and group(1); the pattern is not anchored at the end
MatchUri(part) ==
    LET i == SkipSpace(part, 1)
    IN  IF i <= Len(part) /\ part[i] = "<" /\ FindClose(part, i + 1) # 0
        THEN [ok |-> TRUE,
              group |-> SubSeq(part, i + 1, FindClose(part, i + 1) - 1)]
        ELSE [ok |-> FALSE, group |-> <<>>]

\* re "?\s*$ matches txt from position k on
IsTail(txt, k) ==
    SkipSpace(txt, IF k <= Len(txt) /\ txt[k] = "\"" THEN k + 1 ELSE k)
        > Len(txt)

\* re (.*?)"?\s*$ from position i: where the shortest group ends
RECURSIVE GroupEnd(_, _)
GroupEnd(txt, k) == IF IsTail(txt, k) THEN k ELSE GroupEnd(txt, k + 1)

\* re.match(r'\s*rel\s*=\s*"?(.*?)"?\s*$', linkparam) (line 87)
MatchRel(param) ==
    LET i1 == SkipSpace(param, 1)
        i2 == SkipSpace(param, i1 + 3)
        i3 == SkipSpace(param, i2 + 1)
        i4 == IF i3 <= Len(param) /\ param[i3] = "\"" THEN i3 + 1 ELSE i3
    IN  IF /\ StartsAt(param, i1, <<"r", "e", "l">>)
           /\ i2 <= Len(param)
           /\ param[i2] = "="
        THEN [ok |-> TRUE,
              group |-> SubSeq(param, i4, GroupEnd(param, i4) - 1)]
        ELSE [ok |-> FALSE, group |-> <<>>]

\* str.lower() of the header names drawn
Lower(h) ==
    CASE h = "Link" -> "link"
      [] h = "LINK" -> "link"
      [] h = "Location" -> "location"
      [] OTHER -> h

\* a filter that takes the name as it is written
IsLinkHeader_Exact(h) == h = "link"

\* line 77: h.lower() == "link"
IsLinkHeader(h) == Lower(h) = "link"

\* splitValues as parseLinks calls it: the separator given, default quotes
SplitAt(sep) == [sep |-> <<sep>>, lq |-> <<"\"", "<">>, rq |-> <<"\"", ">">>]

\* lines 86-91: for linkparam in linkparts[1:]
RECURSIVE ForLinkParams(_, _, _, _)
ForLinkParams(linkparts, i, linkuri, links) ==
    IF i > Len(linkparts) THEN links
    ELSE LET linkmatch == MatchRel(linkparts[i])
         IN  ForLinkParams(linkparts, i + 1, linkuri,
                           IF linkmatch.ok
                           THEN Put(links, linkmatch.group, linkuri)
                           ELSE links)

\* lines 82-91: one linkval
LinkVal(linkval, links) ==
    LET linkparts == SplitValues(linkval, SplitAt(";"))
        linkmatch == MatchUri(linkparts[1])
    IN  IF linkmatch.ok
        THEN ForLinkParams(linkparts, 2, linkmatch.group, links)
        ELSE links

\* line 81: for linkval in splitValues(linkheader, ",")
RECURSIVE ForLinkVals(_, _, _)
ForLinkVals(linkvals, i, links) ==
    IF i > Len(linkvals) THEN links
    ELSE ForLinkVals(linkvals, i + 1, LinkVal(linkvals[i], links))

\* lines 77-80: the headers named link, in list order
RECURSIVE ForLinkHeaders(_, _, _)
ForLinkHeaders(headerlist, i, links) ==
    IF i > Len(headerlist) THEN links
    ELSE ForLinkHeaders(headerlist, i + 1,
             IF IsLinkHeader(headerlist[i][1])
             THEN ForLinkVals(SplitValues(headerlist[i][2], SplitAt(",")), 1,
                              links)
             ELSE links)

\* parseLinks(headerlist) on a list of (name, value) pairs of text
ParseLinkHeaders(headerlist) == ForLinkHeaders(headerlist, 1, EmptyDict)

\* a header list that keeps the names as the transport gave them
HeaderList_AsReceived(received) == received

\* line 258: headerlist = [(h.lower(), v) for (h, v) in getheaders()]
HeaderList(received) ==
    [i \in 1..Len(received) |-> <<Lower(received[i][1]), received[i][2]>>]

\* dict(headerlist): a later pair replaces an earlier one of the same name
RECURSIVE DictOf(_, _, _)
DictOf(headerlist, i, d) ==
    IF i > Len(headerlist) THEN d
    ELSE DictOf(headerlist, i + 1,
                Put(d, headerlist[i][1], headerlist[i][2]))

\* lines 258-260: the headers doRequest returns for a response read
ResponseHeaders(received) ==
    Put(DictOf(HeaderList(received), 1, EmptyDict), "_headerlist",
        HeaderList(received))

\* the link values drawn: the URI text, whether it is written in angle
\* brackets, the parameter, whether its value is quoted, and whether the
\* parts are padded with blanks; rel is <<>> for a value without rel
LinkValues ==
    {[uri |-> <<"u">>, bracketed |-> TRUE, param |-> "rel", rel |-> <<"a">>,
      quoted |-> FALSE, padded |-> FALSE],
     [uri |-> <<"v">>, bracketed |-> TRUE, param |-> "rel", rel |-> <<"a">>,
      quoted |-> FALSE, padded |-> TRUE],
     [uri |-> <<"u", ";", "v">>, bracketed |-> TRUE, param |-> "rel",
      rel |-> <<"a", ",", "b">>, quoted |-> TRUE, padded |-> FALSE],
     [uri |-> <<"u", ",", "v">>, bracketed |-> TRUE, param |-> "rel",
      rel |-> <<"a", ";", "b">>, quoted |-> TRUE, padded |-> TRUE],
     [uri |-> <<"w">>, bracketed |-> FALSE, param |-> "rel", rel |-> <<"b">>,
      quoted |-> FALSE, padded |-> FALSE],
     [uri |-> <<"w">>, bracketed |-> TRUE, param |-> "par", rel |-> <<>>,
      quoted |-> FALSE, padded |-> TRUE],
     [uri |-> <<>>, bracketed |-> FALSE, param |-> "none", rel |-> <<>>,
      quoted |-> FALSE, padded |-> FALSE]}

\* header names as the server writes them
HeaderNames == {"Link", "link", "Location"}

\* one link value of a response: head is the name of the header it opens,
\* or "cont" when it follows the previous value after a comma
LinkItems ==
    {[val |-> v, head |-> h] : v \in LinkValues,
                               h \in HeaderNames \cup {"cont"}}

LinkItemLists ==
    {l \in UNION {[1..n -> LinkItems] : n \in 0..MaxLinks} :
        l # <<>> => l[1].head # "cont"}

Blank(v) == IF v.padded THEN <<" ">> ELSE <<>>
Quote(v) == IF v.quoted THEN <<"\"">> ELSE <<>>

\* the text of a link value
LinkText(v) ==
    Blank(v)
    \o (IF v.bracketed THEN <<"<">> \o v.uri \o <<">">> ELSE v.uri)
    \o Blank(v)
    \o (CASE v.param = "rel" ->
               <<";">> \o Blank(v) \o <<"r", "e", "l">> \o Blank(v) \o <<"=">>
               \o Blank(v) \o Quote(v) \o v.rel \o Quote(v) \o Blank(v)
          [] v.param = "par" ->
               <<";">> \o Blank(v) \o <<"p", "a", "r">> \o Blank(v)
               \o <<"=", "z">>
          [] OTHER -> <<>>)

\* the (name, value) pairs the transport gives for the items
RECURSIVE Received(_)
Received(items) ==
    IF items = <<>> THEN <<>>
    ELSE LET before == Received(SubSeq(items, 1, Len(items) - 1))
             it == items[Len(items)]
         IN  IF it.head = "cont"
             THEN [before EXCEPT ![Len(before)] =
                      <<before[Len(before)][1],
                        before[Len(before)][2] \o <<",">> \o LinkText(it.val)>>]
             ELSE Append(before, <<it.head, LinkText(it.val)>>)

InitLinks ==
    /\ InitObjects
    /\ urifn = NoCall
    /\ splitfn = NoCall
    /\ linkfn \in {[done |-> FALSE, given |-> TRUE, items |-> l,
                    received |-> Received(l)] : l \in LinkItemLists}

\* parseLinks is called on the list as given (parsed); doRequest reads the
\* response headers and the caller parses the links with
\* HTTP_Session.parseLinks(headers) (links)
ReadAndParseLinks ==
    /\ linkfn.given
    /\ ~linkfn.done
    /\ \E h \in {ResponseHeaders(linkfn.received)} :
         linkfn' = [linkfn EXCEPT !.done = TRUE] @@
                   [parsed |-> ParseLinkHeaders(linkfn.received),
                    headers |-> h,
                    links |-> ParseLinkHeaders(h["_headerlist"])]
    /\ UNCHANGED <<httpvars, rovars, annvars, agg, urifn, splitfn>>

NextLinks == ReadAndParseLinks

SpecLinks == InitLinks /\ [][NextLinks]_vars

----------------------------------------------------------------------------
(* splitValues, one round of its loop at a time *)

\* lines 38-40: the call starts
InitScan ==
    /\ InitObjects
    /\ urifn = NoCall
    /\ linkfn = NoCall
    /\ splitfn \in {[done |-> FALSE, given |-> TRUE, txt |-> t, args |-> a,
                     cursor |-> 0, begseg |-> 0, result |-> <<>>,
                     rounds |-> 0] :
                        t \in Texts, a \in {SplitAt(",")}}

\* lines 41-56: the loop condition holds, one round is made
LoopRound ==
    /\ splitfn.given
    /\ ~splitfn.done
    /\ splitfn.cursor < Len(splitfn.txt)
    /\ \E n \in {Iterate(splitfn.txt, splitfn.args, splitfn.cursor,
                          splitfn.begseg, splitfn.result)} :
         splitfn' = [splitfn EXCEPT !.cursor = n.cursor,
                                    !.begseg = n.begseg,
                                    !.result = n.result,
                                    !.rounds = @ + 1]
    /\ UNCHANGED <<httpvars, rovars, annvars, agg, urifn, linkfn>>

\* lines 57-59: the loop has ended, the final segment is appended
LoopEnd ==
    /\ splitfn.given
    /\ ~splitfn.done
    /\ splitfn.cursor >= Len(splitfn.txt)
    /\ splitfn' = [splitfn EXCEPT !.done = TRUE,
                                  !.result = FinalSegment(splitfn.txt,
                                                 splitfn.begseg,
                                                 splitfn.cursor,
                                                 splitfn.result)]
    /\ UNCHANGED <<httpvars, rovars, annvars, agg, urifn, linkfn>>

NextScan == LoopRound \/ LoopEnd

SpecScan == InitScan /\ [][NextScan]_vars

----------------------------------------------------------------------------
(* ro_remote_metadata: threads that share one assembler *)

\* thread t moves to position p having seen graph g
MoveTo(t, p, g) == callers' = [callers EXCEPT ![t] = [pc |-> p, seen |-> g]]

\* thread t calls _loadManifest on the constructed assembler
CallLoadManifest(t) ==
    /\ built = "yes"
    /\ callers[t].pc = "out"
    /\ loads < MaxLoads
    /\ loads' = loads + 1
    /\ MoveTo(t, "l85", NoManifest)
    /\ UNCHANGED <<manifestgraph, dummyfortest, built, fetches, loaded, first,
                   baseuri, self_rouri, httpvars, othervars>>

\* line 85: the test of the cached graph
TestCached(t) ==
    /\ callers[t].pc = "l85"
    /\ MoveTo(t, IF Truthy(manifestgraph) THEN "l93" ELSE "l86", NoManifest)
    /\ UNCHANGED <<manifestgraph, dummyfortest, built, fetches, loads, loaded,
                   first, baseuri, self_rouri, httpvars, othervars>>

\* line 86: a new graph is put in place of the cached one
NewGraph(t) ==
    /\ callers[t].pc = "l86"
    /\ manifestgraph' = [set |-> TRUE, triples |-> {}]
    /\ MoveTo(t, "l87", NoManifest)
    /\ UNCHANGED <<dummyfortest, built, fetches, loads, loaded, first,
                   baseuri, self_rouri, httpvars, othervars>>

\* lines 87-92: the graph in place is filled, by the test statement or from
\* what the fetch gives; a failed fetch raises
FillGraph(t, f) ==
    /\ callers[t].pc = "l87"
    /\ IF dummyfortest
       THEN /\ manifestgraph' = [manifestgraph EXCEPT
                                    !.triples = @ \cup {"type"}]
            /\ MoveTo(t, "l93", NoManifest)
            /\ UNCHANGED fetches
       ELSE /\ manifestgraph' = [manifestgraph EXCEPT
                                    !.triples = @ \cup f.triples]
            /\ MoveTo(t, IF f.ok THEN "l93" ELSE "raised", NoManifest)
            /\ fetches' = fetches + 1
    /\ UNCHANGED <<dummyfortest, built, loads, loaded, first, baseuri,
                   self_rouri, httpvars, othervars>>

\* lines 85 and 93: return self.manifestgraph
ReturnGraph(t) ==
    /\ callers[t].pc = "l93"
    /\ MoveTo(t, "returned", manifestgraph)
    /\ UNCHANGED <<manifestgraph, dummyfortest, built, fetches, loads, loaded,
                   first, baseuri, self_rouri, httpvars, othervars>>

\* line 237: a manifest predicate reads the cached graph
ReadManifest(t) ==
    /\ built = "yes"
    /\ callers[t].pc = "out"
    /\ MoveTo(t, "returned", manifestgraph)
    /\ UNCHANGED <<manifestgraph, dummyfortest, built, fetches, loads, loaded,
                   first, baseuri, self_rouri, httpvars, othervars>>

\* the thread has its result or its exception
Leave(t) ==
    /\ callers[t].pc \in {"returned", "raised"}
    /\ MoveTo(t, "out", NoManifest)
    /\ UNCHANGED <<manifestgraph, dummyfortest, built, fetches, loads, loaded,
                   first, baseuri, self_rouri, httpvars, othervars>>

NextCallers ==
    \/ ConstructAny
    \/ \E t \in Threads : CallLoadManifest(t)
    \/ \E t \in Threads : TestCached(t)
    \/ \E t \in Threads : NewGraph(t)
    \/ \E t \in Threads : \E f \in ManifestFetches : FillGraph(t, f)
    \/ \E t \in Threads : ReturnGraph(t)
    \/ \E t \in Threads : ReadManifest(t)
    \/ \E t \in Threads : Leave(t)

SpecCallers == Init /\ [][NextCallers]_vars

NextRO ==
    \/ ConstructAny
    \/ LoadManifestAny

SpecRO == Init /\ [][NextRO]_vars

Next ==
    \/ CallAny
    \/ FirstRedirect
    \/ SecondRedirect
    \/ Return
    \/ Close
    \/ ExitWith

Spec == Init /\ [][Next]_vars

----------------------------------------------------------------------------
(* Properties *)

HeaderIs(h, n, v) == Has(h, n) /\ h[n] = v
SameHeader(a, b, n) == (Has(a, n) <=> Has(b, n)) /\ (Has(a, n) => a[n] = b[n])

Finished(o) == pc = "done" /\ op = o

\* C1: no request sent over a connection other than the session's own
\* carries the session's credential, on any hop of any call.
C1_NoCredentialOnForeignConnection ==
    \A i \in 1..Len(wire) :
        (wire[i].conn # "primary" /\ wire[i].delivered) =>
            ~HeaderIs(wire[i].headers, "authorization", Bearer(Token))

\* C2: doRequest with exthost = false on a URI whose scheme or host:port
\* differs from the session's fails with the scheme-mismatch error (scheme
\* differs) or the host-mismatch error, and nothing was handed to any
\* connection.
C2_MismatchRejectedBeforeIO ==
    (/\ Finished("doRequest")
     /\ ~args.exthost
     /\ (args.uri.scheme # "http" \/ args.uri.netloc # "srv"))
    => /\ res.exc = IF args.uri.scheme # "http" THEN "URI scheme mismatch"
                    ELSE "URI host:port mismatch"
       /\ wire = <<>>

C2_Witness ==
    /\ Finished("doRequest")
    /\ ~args.exthost
    /\ args.uri = ExtUri
    /\ res.exc = "URI host:port mismatch"
    /\ wire = <<>>

\* C3: every doRequest call that passes the affinity check returns a
\* response; a transport failure gives status 900 with the failure's
\* description as reason, no headers and no body.
C3_TransportFailureIs900 ==
    (/\ Finished("doRequest")
     /\ (args.exthost \/ (args.uri.scheme = "http" /\ args.uri.netloc = "srv")))
    => /\ res.exc = "none"
       /\ got.t # "resp" =>
            /\ res.status = 900
            /\ res.reason = got.desc
            /\ res.headers = EmptyDict
            /\ res.data = NoData

\* C4: one call of doRequestFollowRedirect or doRequestRDFFollowRedirect
\* issues at most three requests.
C4_AtMostThreeRequests ==
    op \in Followers => Len(wire) <= 3

\* C5: in a redirect follower a second request is made only after a 302, 303
\* or 307 and a third only after a 302 or 307 to the second; a call that
\* returns has made the second request when the first response was 302, 303
\* or 307 and the third when the second response was 302 or 307; a 303
\* after a 303 is returned to the caller after two requests.
C5_RedirectPolicy ==
    op \in Followers =>
        /\ Len(hops) <= 3
        /\ Len(hops) >= 2 => hops[1].status \in {302, 303, 307}
        /\ Len(hops) = 3 => hops[2].status \in {302, 307}
        /\ (pc = "done" /\ res.exc = "none") =>
              /\ hops[1].status \in {302, 303, 307} => Len(hops) >= 2
              /\ (Len(hops) >= 2 /\ hops[2].status \in {302, 307})
                    => Len(hops) = 3
              /\ (Len(hops) >= 2 /\ hops[1].status = 303 /\ hops[2].status = 303)
                    => /\ Len(hops) = 2
                       /\ res.status = 303
                       /\ uripath = hops[2].uri

C5_Witness ==
    /\ Finished("doRequestFollowRedirect")
    /\ res.exc = "none"
    /\ Len(hops) = 3
    /\ hops[1].status = 303
    /\ hops[2].status = 307

\* C6: every request doRequestFollowRedirect issues on a redirect hop has the
\* method, body, content-type, accept value and extra headers of the first
\* request.
C6_HopsRepeatTheRequest ==
    op = "doRequestFollowRedirect" =>
        \A i \in 2..Len(wire) :
          wire[i].delivered =>
            /\ wire[i].method = wire[1].method
            /\ wire[i].body = wire[1].body
            /\ SameHeader(wire[i].headers, wire[1].headers, "content-type")
            /\ SameHeader(wire[i].headers, wire[1].headers, "accept")
            /\ \A n \in (DOMAIN args.rh) \ {"authorization"} :
                   SameHeader(wire[i].headers, wire[1].headers, n)

Is2xx(status) == status >= 200 /\ status < 300

\* C7: doRequestRDF returns a graph only with a 2xx status; a response that
\* is not 2xx (900 included) is returned unchanged; a 2xx response that is
\* not turned into a graph is returned with status 901 or 902.
C7_GraphOnlyOn2xx ==
    (Finished("doRequestRDF") /\ wire # <<>>) =>
        /\ res.data.kind = "graph" => (res.exc = "none" /\ Is2xx(res.status))
        /\ (got.t # "sendfail" /\ ~Is2xx(ReadResponse(got).status)) =>
              /\ res.exc = "none"
              /\ res.status = ReadResponse(got).status
              /\ res.reason = ReadResponse(got).reason
              /\ res.headers = ReadResponse(got).headers
              /\ res.data = ReadResponse(got).data
              /\ cgraph = args.graph
        /\ (Is2xx(ReadResponse(got).status) /\ res.data.kind # "graph") =>
              (res.exc = "none" /\ res.status \in {901, 902})

\* the media type of the response is one of the RDF serializations
RecognizedRdf(o) ==
    /\ Has(o.headers, "content-type")
    /\ MediaType(o.headers["content-type"]) \in DOMAIN RDF_CONTENT_TYPES

\* C8: a 2xx response whose content-type is not a recognized RDF media type,
\* or that has no content-type header, makes doRequestRDF return status 901
\* with the raw body and leaves the caller's graph as it was.
C8_NonRdfIs901 ==
    (/\ Finished("doRequestRDF")
     /\ wire # <<>>
     /\ got.t = "resp" /\ Is2xx(got.status)
     /\ ~RecognizedRdf(got))
    => /\ res.exc = "none"
       /\ res.status = 901
       /\ res.data = RawData(got.body)
       /\ cgraph = args.graph

\* C9: a 2xx response with a recognized RDF content-type whose body does not
\* parse makes doRequestRDF return status 902 with the raw body as received,
\* and no exception is raised.
C9_ParseFailureIs902 ==
    (/\ Finished("doRequestRDF")
     /\ wire # <<>>
     /\ got.t = "resp" /\ Is2xx(got.status)
     /\ RecognizedRdf(got)
     /\ ~ParseOk(got.body,
                 RDF_CONTENT_TYPES[MediaType(got.headers["content-type"])]))
    => /\ res.exc = "none"
       /\ res.status = 902
       /\ res.data = RawData(got.body)

\* C10: the manifest of one assembler is fetched at most once, and every
\* _loadManifest call after the first returns the graph the first returned.
C10_ManifestFetchedOnce ==
    built = "yes" =>
        /\ fetches <= 1
        /\ loads >= 2 => (loaded = first /\ manifestgraph = first)

\* C11: the annotation graph of one assembler is assembled once: a call of
\* _loadAnnotations, iterateAnnotations or queryAnnotations made after a
\* first _loadAnnotations completed dereferences no body and leaves the
\* cached graph in place, whatever that graph holds and whatever happened
\* to the manifest graph since.
C11_AnnotationsAssembledOnce ==
    (ann.op # None /\ ann.before.set) =>
        /\ ~ann.assembled
        /\ ann.read = {}
        /\ roannotations = ann.before

\* the body of an annotation could not be dereferenced: transport fault,
\* status outside 2xx, not RDF (901), RDF that does not parse (902)
BodyFailed(o) ==
    \/ o.t # "resp"
    \/ ~Is2xx(o.status)
    \/ ~RecognizedRdf(o)
    \/ o.body = "garbage"

\* the triples of the body the service gave for annotation a
BodyGiven(a, o) ==
    IF BodyFailed(o) \/ o.body = "" THEN {}
    ELSE IF a = "ann" THEN Body1Triples ELSE Body2Triples

C13_IterateYieldsNamedSubjects ==
    (ann.op = "iterateAnnotations" /\ ann.exc = "none") =>
        ann.yielded =
            {t \in roannotations.triples :
                /\ ann.subject = None \/ t.s = ann.subject
                /\ ann.property = None \/ t.p = ann.property
                /\ t.s \notin BNodes}

C13_Witness ==
    /\ ann.op = "iterateAnnotations"
    /\ ann.yielded # {}
    /\ \E t \in roannotations.triples :
           /\ t.s \in BNodes
           /\ ann.subject = None
           /\ ann.property \in {None, t.p}

\* the status a request gave to the caller of doRequest (900 when the
\* response could not be read)
StatusGiven(o) == ReadResponse(o).status

\* the response carries a Link header of relation proxyFor
HasProxyFor(o) ==
    /\ o.t = "resp"
    /\ \E i \in 1..Len(o.headers["_headerlist"]) :
           /\ o.headers["_headerlist"][i][1] = "link"
           /\ o.headers["_headerlist"][i][2].rel = ProxyFor

\* the target of that header
ProxyForOf(o) ==
    LET hl == o.headers["_headerlist"]
    IN  hl[CHOOSE i \in 1..Len(hl) :
               hl[i][1] = "link" /\ hl[i][2].rel = ProxyFor][2].uri

AggregationMessages ==
    {"Error creating aggregation proxy",
     "No ore:proxyFor link in create proxy response",
     "Error creating aggregated resource content",
     "Error updating aggregated resource content"}

AggregationError == agg.exc = "HTTP_Error" /\ agg.msg \in AggregationMessages

\* C14: aggregateResourceInt issues the PUT only after the POST came back
\* with status 201 and a proxyFor link, and to the URI of that link; when
\* the POST status is not 201 or the link is absent an aggregation error is
\* raised and no PUT is issued.
C14_PutOnlyAfterProxyCreated ==
    agg.op = "aggregateResourceInt" =>
        /\ \A i \in 1..Len(agg.sent) :
               agg.sent[i].method = "PUT" =>
                   /\ i = 2
                   /\ agg.sent[1].method = "POST"
                   /\ agg.o1.t = "resp"
                   /\ agg.o1.status = 201
                   /\ HasProxyFor(agg.o1)
                   /\ agg.sent[i].uri = ProxyForOf(agg.o1)
        /\ (/\ agg.o1.t # "sendfail"
            /\ StatusGiven(agg.o1) # 201 \/ ~HasProxyFor(agg.o1)) =>
               /\ AggregationError
               /\ \A i \in 1..Len(agg.sent) : agg.sent[i].method # "PUT"

\* C15: aggregateResourceInt returns exactly when the POST gave 201 with a
\* proxyFor link and the PUT gave 200 or 201; it then returns the location
\* header of the POST response as proxy URI and the proxyFor target as
\* resource URI; in every other case it raises an aggregation error whose
\* value carries the status, the reason and the resource path.  (Stated
\* for the calls in which every request issued reached the service.)
C15_ReturnsOnlyWhenBothStepsDone ==
    (/\ agg.op = "aggregateResourceInt"
     /\ \A i \in 1..Len(agg.sent) : agg.sent[i].delivered) =>
        /\ agg.exc = "none" <=>
               /\ agg.o1.t = "resp"
               /\ agg.o1.status = 201
               /\ HasProxyFor(agg.o1)
               /\ agg.o2.t # "sendfail"
               /\ StatusGiven(agg.o2) \in {200, 201}
        /\ agg.exc = "none" =>
               /\ agg.ret.proxyuri = agg.o1.headers["location"]
               /\ agg.ret.resuri = ProxyForOf(agg.o1)
        /\ agg.exc # "none" =>
               /\ AggregationError
               /\ agg.value.fmt = "%d03 %s (%s)"
               /\ agg.value.path = agg.args.respath

\* C16: updateResourceInt issues one PUT to the resource URI it was given
\* and nothing else; it returns exactly when the status of that PUT is 200,
\* and raises an error for any other status, 201 and 900 included.
C16_UpdateNeeds200 ==
    agg.op = "updateResourceInt" =>
        /\ Len(agg.sent) = 1
        /\ agg.sent[1].method = "PUT"
        /\ agg.sent[1].uri = agg.args.resuri
        /\ agg.exc = "none" <=>
               (agg.o1.t # "sendfail" /\ StatusGiven(agg.o1) = 200)
        /\ (agg.o1.t # "sendfail" /\ StatusGiven(agg.o1) # 200) =>
               AggregationError

C16_Witness ==
    /\ agg.op = "updateResourceInt"
    /\ agg.o1.t = "resp"
    /\ agg.o1.status = 201
    /\ agg.exc = "HTTP_Error"
    /\ agg.value.status = 201

\* C17: aggregateResourceExt issues one POST whose proxy description names
\* the external URI as proxyFor, and no PUT; it returns exactly when the
\* status is 201, with the location header as proxy URI and the resource
\* URI it was given; otherwise it raises an aggregation error.  (Stated
\* for the calls in which the request reached the service.)
C17_ExternalIsOnePost ==
    (/\ agg.op = "aggregateResourceExt"
     /\ \A i \in 1..Len(agg.sent) : agg.sent[i].delivered) =>
        /\ Len(agg.sent) = 1
        /\ agg.sent[1].method = "POST"
        /\ agg.sent[1].body = ProxyData(agg.args.resuri)
        /\ agg.exc = "none" <=>
               (agg.o1.t # "sendfail" /\ StatusGiven(agg.o1) = 201)
        /\ agg.exc = "none" =>
               /\ agg.ret.proxyuri = agg.o1.headers["location"]
               /\ agg.ret.resuri = agg.args.resuri
        /\ agg.exc # "none" => AggregationError

\* C18: isInternalResource(rouri, resuri) is true exactly when resuri
\* starts with rouri.
C18_InternalIffRoUriIsPrefix ==
    (urifn.done /\ urifn.name = "isInternalResource") =>
        (urifn.out <=> StartsWith(urifn.resuri, urifn.rouri))

\* where a reader of the header value stands before a character: outside
\* any span, inside a span that eq closes, or inside it just after a
\* backslash
Outside == [m |-> "out", eq |-> ""]
Inside(eq) == [m |-> "in", eq |-> eq]
Escaped(eq) == [m |-> "esc", eq |-> eq]

\* the reader passes character c
Read(st, c, a) ==
    CASE st.m = "out" ->
            IF \E i \in 1..Len(a.lq) : a.lq[i] = c
            THEN Inside(a.rq[CHOOSE i \in 1..Len(a.lq) :
                                a.lq[i] = c /\ \A j \in 1..(i - 1) : a.lq[j] # c])
            ELSE Outside
      [] st.m = "in" ->
            IF c = st.eq THEN Outside
            ELSE IF c = "\\" THEN Escaped(st.eq)
            ELSE st
      [] OTHER -> Inside(st.eq)

\* where the reader stands after the first n characters of txt
RECURSIVE After(_, _, _)
After(txt, n, a) ==
    IF n = 0 THEN Outside ELSE Read(After(txt, n - 1, a), txt[n], a)

\* the positions of the separators that lie outside any span
Separators(txt, a) ==
    {i \in 1..Len(txt) :
        /\ After(txt, i - 1, a).m = "out"
        /\ After(txt, i, a).m = "out"
        /\ \E k \in 1..Len(a.sep) : a.sep[k] = txt[i]}

\* the k-th of the positions in ps, and the end of the text after the last
Nth(ps, k, txt) ==
    IF k = 0 THEN 0
    ELSE IF k > Cardinality(ps) THEN Len(txt) + 1
    ELSE CHOOSE p \in ps : Cardinality({q \in ps : q < p}) = k - 1

\* C19: splitValues returns one segment more than there are separators
\* outside any quoted or bracketed span, the segments being the stretches
\* of the text between those separators in the order of the text; the
\* last segment is returned also when it is empty.
C19_OneSegmentPerSeparatorPlusOne ==
    splitfn.done =>
        LET seps == Separators(splitfn.txt, splitfn.args)
        IN  /\ Len(splitfn.out) = Cardinality(seps) + 1
            /\ \A k \in 1..Len(splitfn.out) :
                   splitfn.out[k] =
                       SubSeq(splitfn.txt, Nth(seps, k - 1, splitfn.txt) + 1,
                              Nth(seps, k, splitfn.txt) - 1)

C19_Witness ==
    /\ splitfn.done
    /\ Len(splitfn.out) = 2
    /\ splitfn.out[2] = <<>>
    /\ \E i \in 1..Len(splitfn.txt) :
           /\ splitfn.txt[i] = ","
           /\ i \notin Separators(splitfn.txt, splitfn.args)

\* C20: in splitValues a span opened by the i-th opening character ends at
\* the i-th closing character and at no other; a separator inside a span
\* does not split; inside a span the character after a backslash neither
\* closes the span nor splits; every pair is honoured in one pass.  So each
\* segment returned, read on its own, has its separators inside spans only,
\* and each segment but the last ends outside any span.
C20_SpansAreNotSplit ==
    splitfn.done =>
        \A k \in 1..Len(splitfn.out) :
            /\ Separators(splitfn.out[k], splitfn.args) = {}
            /\ k < Len(splitfn.out) =>
                   After(splitfn.out[k], Len(splitfn.out[k]),
                         splitfn.args).m = "out"

C20_Witness ==
    /\ splitfn.done
    /\ splitfn.txt = <<"\"", "\\", "\"", ",">>
    /\ Len(splitfn.args.lq) = 2
    /\ splitfn.out = <<splitfn.txt>>

\* C24: close() is idempotent.  After every close(), also the one made when
\* control leaves a with block normally or with an error, the session holds
\* no credential and its connection is released; a close() of a session
\* that is closed already leaves credential and connection as they were.
C24_CloseIsIdempotent ==
    [][closes' # closes =>
          /\ skey' = None
          /\ primary' = "closed"
          /\ (skey = None /\ primary = "closed") =>
                 (skey' = skey /\ primary' = primary)]_vars

C24_Witness == closes = 2 /\ skey = None /\ primary = "closed"

\* C25: once close() was called, no request is handed to the primary
\* connection and the connection stays closed.
C25_NoRequestAfterClose ==
    closes > 0 =>
        /\ primary = "closed"
        /\ \A i \in 1..Len(wire) : wire[i].conn # "primary"

\* C26: every throwaway connection doRequest opened is closed when the
\* call has ended, whether it returned a response, returned 900 or raised
\* while sending.
C26_ThrowawayConnectionsClosed ==
    \A i \in 1..Len(wire) : wire[i].conn = "throwaway" => wire[i].closed

\* C27: a request sent over the primary connection by a session holding a
\* credential carries authorization: Bearer <token>, whatever authorization
\* the caller's headers named; a session without credential sends the
\* authorization header the caller gave, or none.
C27_CredentialOnPrimaryRequests ==
    \A i \in 1..Len(wire) : wire[i].conn = "primary" =>
        /\ skey # None =>
              HeaderIs(wire[i].headers, "authorization", Bearer(skey))
        /\ skey = None =>
              SameHeader(wire[i].headers, args.rh, "authorization")

C27_Witness ==
    \E i \in 1..Len(wire) :
        /\ wire[i].conn = "primary"
        /\ skey = Token
        /\ HeaderIs(args.rh, "authorization", <<"Basic", "other">>)
        /\ HeaderIs(wire[i].headers, "authorization", Bearer(Token))

\* C28: every request doRequestRDF makes is made by doRequest with accept
\* application/rdf+xml, text/turtle; so without exthost no host but the
\* session's is contacted, and a transport failure is returned as status 900
\* and not raised (a fault while a request is handed to the connection is
\* left aside here).
C28_RdfRequestsGoThroughDoRequest ==
    op = "doRequestRDF" =>
        /\ \A i \in 1..Len(wire) :
              /\ wire[i].conn \in {"primary", "throwaway"}
              /\ HeaderIs(wire[i].headers, "accept", ACCEPT_RDF_CONTENT_TYPES)
              /\ ~args.exthost => ~Foreign(wire[i].uri)
        /\ (/\ pc = "done"
            /\ wire # <<>>
            /\ got.t # "resp"
            /\ \A i \in 1..Len(wire) : wire[i].delivered) =>
              (res.exc = "none" /\ res.status = 900)

\* the serialization names of the specification's table
SerializationOf ==
    [t \in DOMAIN RDF_CONTENT_TYPES |->
        CASE t = "application/rdf+xml" -> "XML"
          [] t = "text/turtle" -> "Turtle"
          [] t = "text/n3" -> "N3"
          [] t = "text/nt" -> "N-Triples"
          [] t = "application/json" -> "JSON-LD"
          [] t = "application/xhtml" -> "RDFa"]

\* the serializations an rdflib format name reads: the n3 parser reads
\* Notation3 and its subset Turtle
Reads(bodyformat) ==
    CASE bodyformat = "xml" -> {"XML"}
      [] bodyformat = "n3" -> {"N3", "Turtle"}
      [] bodyformat = "turtle" -> {"Turtle"}
      [] bodyformat = "nt" -> {"N-Triples"}
      [] bodyformat = "jsonld" -> {"JSON-LD"}
      [] bodyformat = "rdfa" -> {"RDFa"}

\* C30: the body of a 2xx response with a recognized content type is parsed
\* by doRequestRDF in the serialization the table assigns to that content
\* type, whatever the request URI.
C30_ParsedAsTableSays ==
    (/\ Finished("doRequestRDF")
     /\ wire # <<>>
     /\ got.t = "resp"
     /\ Is2xx(got.status)
     /\ RecognizedRdf(got)
     /\ res.exc = "none") =>
        SerializationOf[MediaType(got.headers["content-type"])]
            \in Reads(BodyFormat(MediaType(got.headers["content-type"]),
                                 HasW3idPrefix(args.uri)))

\* C29: deaggregateResource(rouri, resuri) sends one deaggregation request
\* for the resource and returns (status, reason, None, resuri) with status
\* 204 or 404.
C29_DeaggregateSendsRequest ==
    agg.op = "deaggregateResource" =>
        /\ Len(agg.sent) = 1
        /\ agg.sent[1].method = "DELETE"
        /\ agg.exc = "none"
        /\ agg.ret.status \in {204, 404}
        /\ agg.ret.resuri = agg.args.resuri

\* the name of the header the i-th link value was sent in
RECURSIVE HeaderOf(_, _)
HeaderOf(items, i) ==
    IF items[i].head = "cont" THEN HeaderOf(items, i - 1) ELSE items[i].head

\* a link value with a bracketed URI and a rel parameter, in a header whose
\* name is link in any case
Counts(items, i) ==
    /\ HeaderOf(items, i) \in {"link", "Link", "LINK"}
    /\ items[i].val.bracketed
    /\ items[i].val.param = "rel"

Counting(items) == {i \in 1..Len(items) : Counts(items, i)}

\* C21: parseLinks gives one map from relation to URI built from all headers
\* named link in any case and all comma-separated link values in each, in
\* list order: a relation has the URI of its latest occurrence; a ; or ,
\* inside the bracketed URI or the quoted rel value does not split.
C21_LinksOfAllHeadersLatestWins ==
    linkfn.done =>
        LET items == linkfn.items
        IN  /\ DOMAIN linkfn.parsed = {items[i].val.rel : i \in Counting(items)}
            /\ \A i \in Counting(items) :
                  (\A j \in Counting(items) :
                      (j > i => items[j].val.rel # items[i].val.rel)) =>
                  linkfn.parsed[items[i].val.rel] = items[i].val.uri

C21_Witness ==
    /\ linkfn.done
    /\ Len(linkfn.items) = 2
    /\ Counting(linkfn.items) = {1, 2}
    /\ HeaderOf(linkfn.items, 1) # HeaderOf(linkfn.items, 2)
    /\ linkfn.items[1].val.rel = linkfn.items[2].val.rel
    /\ linkfn.items[1].val.uri # linkfn.items[2].val.uri
    /\ linkfn.parsed[linkfn.items[2].val.rel] = linkfn.items[2].val.uri

\* the counting link values alone, each in a link header of its own
RECURSIVE Kept(_)
Kept(items) ==
    IF items = <<>> THEN <<>>
    ELSE LET before == Kept(SubSeq(items, 1, Len(items) - 1))
         IN  IF Counts(items, Len(items))
             THEN Append(before, [val |-> items[Len(items)].val,
                                  head |-> "link"])
             ELSE before

LowerCased(n) ==
    CASE n \in {"Link", "link", "LINK"} -> "link"
      [] n \in {"Location", "location"} -> "location"

C31_ForeignRequestLeavesSession ==
    [][(/\ Len(wire') > Len(wire)
        /\ \A i \in (Len(wire) + 1)..Len(wire') :
              wire'[i].conn = "throwaway")
       => (skey' = skey /\ primary' = primary)]_vars

C31_Witness ==
    /\ Finished("doRequest")
    /\ args.exthost
    /\ Foreign(args.uri)
    /\ Len(wire) = 1
    /\ wire[1].conn = "throwaway"
    /\ skey = Token
    /\ primary = "new"

\* C32: the final URI a redirect follower returns is the URI it was called
\* with when no redirect was followed, and else the location value of the
\* last redirect followed; it is the target of the request whose response
\* is returned.
C32_FinalUriIsLastTarget ==
    (op \in Followers /\ pc = "done" /\ res.exc = "none") =>
        /\ Len(hops) = 1 => uripath = args.uri
        /\ Len(hops) > 1 => uripath = hops[Len(hops) - 1].location
        /\ uripath = wire[Len(wire)].uri

\* C38: when a redirect names a location of another scheme or host and the
\* call was made without exthost, doRequestFollowRedirect sends nothing to
\* that location, sends the credential over no other connection, and ends
\* with the scheme or host mismatch error.
C38_ForeignRedirectRejected ==
    (/\ op = "doRequestFollowRedirect"
     /\ ~args.exthost
     /\ \/ /\ Len(hops) = 1
           /\ hops[1].status \in {302, 303, 307}
           /\ pc \in {"hop2", "done"}
        \/ /\ Len(hops) = 2
           /\ hops[2].status \in {302, 307}
           /\ pc = "done"
     /\ (\/ hops[Len(hops)].location.scheme \notin {BaseScheme, ""}
         \/ hops[Len(hops)].location.netloc \notin {BaseHost, ""}))
    => /\ pc = "done"
       /\ res.exc = IF hops[Len(hops)].location.scheme # BaseScheme
                    THEN "URI scheme mismatch" ELSE "URI host:port mismatch"
       /\ Len(wire) = Len(hops)
       /\ \A i \in 1..Len(wire) :
             /\ wire[i].conn = "primary"
             /\ wire[i].uri # hops[Len(hops)].location

C38_Witness ==
    /\ Finished("doRequestFollowRedirect")
    /\ ~args.exthost
    /\ Len(hops) = 2
    /\ hops[2].status = 302
    /\ hops[2].location = TlsUri
    /\ res.exc = "URI scheme mismatch"
    /\ Len(wire) = 2
    /\ skey = Token

\* C39: a redirect follower returns a result for every sequence of
\* responses of the session's own host, also for a 302, 303 or 307 without
\* location header, which is returned as it is.  (Stated for responses
\* that doRequestRDF does not fail on itself.)
C39_FollowerAlwaysReturns ==
    (/\ op \in Followers
     /\ pc = "done"
     /\ wire # <<>>
     /\ \A i \in 1..Len(wire) : wire[i].conn = "primary" /\ wire[i].delivered
     /\ got.t = "resp"
     /\ ~Has(got.headers, "location")
     /\ ~Is2xx(got.status))
    => /\ res.exc = "none"
       /\ res.status = got.status
       /\ uripath = wire[Len(wire)].uri

\* the position of the character that opens the span the text ends in
OpenedAt(txt, a) ==
    CHOOSE p \in 1..Len(txt) :
        /\ After(txt, p - 1, a).m = "out"
        /\ \A j \in p..Len(txt) : After(txt, j, a).m # "out"

\* C33: splitValues ends on every text and raises nothing: every round of
\* its loop moves the cursor forward, to the end of the text or one place
\* beyond at most (a backslash as last character of a span), and the loop
\* ends when the cursor is there; a span that is not closed reaches to the
\* end of the text, so the last segment returned holds all of it.
C33_SplitValuesEnds ==
    [][/\ splitfn.given => splitfn'.given
       /\ (splitfn.given /\ ~splitfn.done) =>
             /\ splitfn'.done \/ splitfn'.cursor > splitfn.cursor
             /\ splitfn'.cursor <= Len(splitfn.txt) + 1
             /\ splitfn'.rounds <= Len(splitfn.txt)
             /\ (/\ splitfn'.done
                 /\ After(splitfn.txt, Len(splitfn.txt), splitfn.args).m # "out")
                => LET last == splitfn'.result[Len(splitfn'.result)]
                       p == OpenedAt(splitfn.txt, splitfn.args)
                   IN  /\ Len(last) >= Len(splitfn.txt) - p + 1
                       /\ last = SubSeq(splitfn.txt,
                                        Len(splitfn.txt) - Len(last) + 1,
                                        Len(splitfn.txt))]_vars

C33_Witness ==
    /\ splitfn.given
    /\ splitfn.done
    /\ splitfn.txt = <<"a", ",", "\"", "\\">>
    /\ splitfn.cursor = 5
    /\ splitfn.result = <<<<"a">>, <<"\"", "\\">>>>

\* C34 as claimed: no resource URI is classified internal and external.
C34_NeverBothInternalAndExternal ==
    (urifn.done /\ urifn.name = "classify") =>
        ~(urifn.internal /\ urifn.external)

\* C34: for an RO whose URI has a scheme other than http and https no
\* resource URI is classified internal and external; for an RO with an
\* http URI the RO URI itself is classified both.
C34_ExclusiveUnlessRoIsHttp ==
    (urifn.done /\ urifn.name = "classify") =>
        /\ urifn.rouri[1] \notin {"http", "https"} =>
              ~(urifn.internal /\ urifn.external)
        /\ (urifn.rouri[1] = "http" /\ urifn.resuri = urifn.rouri) =>
              (urifn.internal /\ urifn.external)

C34_Witness ==
    /\ urifn.done
    /\ urifn.name = "classify"
    /\ urifn.rouri[1] = "file"
    /\ urifn.resuri = <<"file", ":", "/">>
    /\ urifn.internal
    /\ ~urifn.external

\* C35: getComponentUri(getComponentUriRel(p)) equals getComponentUri(p);
\* when the resolved URI starts with the RO URI, getComponentUriRel(p) is
\* the resolved URI without that prefix, and else it is p.
C35_RelIsInverseOfComponentUri ==
    (urifn.done /\ urifn.name = "getComponentUriRel") =>
        /\ urifn.back = urifn.resolved
        /\ urifn.rel = IF StartsWith(urifn.resolved, urifn.rouri)
                       THEN Drop(urifn.resolved, Len(urifn.rouri))
                       ELSE urifn.resuri

\* C37: once the assembler is constructed its RO URI is never absent: in
\* test mode it is the resolved base reference with a trailing slash, and
\* otherwise a named URI taken from the manifest, whatever the manifest
\* holds.
C37_RoUriAlwaysNamed ==
    built = "yes" =>
        /\ self_rouri # <<>>
        /\ dummyfortest => self_rouri = TrailingSlash(baseuri)

\* the service answered the proxy POST of the call with 201: it made a proxy
ProxyMade == agg.o1.t = "resp" /\ agg.o1.status = 201

\* the service still has the proxy: the call sent nothing that removes it
ProxyLeft ==
    ProxyMade /\ \A i \in 1..Len(agg.sent) : agg.sent[i].method # "DELETE"

\* C40 as claimed: when aggregateResourceInt raises, no proxy made by the
\* call is left on the service.
C40_NoProxyLeftWhenRaised ==
    (agg.op = "aggregateResourceInt" /\ agg.exc # "none") => ~ProxyLeft

\* C40: aggregateResourceInt sends a POST and at most one PUT after it and
\* nothing that removes a proxy, so when it raises, a proxy is left on the
\* service exactly when the POST was answered 201; it raises after a PUT
\* that was answered only when the answer is neither 200 nor 201.
C40_ProxyLeftWhenRaisedAfterPost ==
    agg.op = "aggregateResourceInt" =>
        /\ Len(agg.sent) <= 2
        /\ \A i \in 1..Len(agg.sent) :
               agg.sent[i].method = (IF i = 1 THEN "POST" ELSE "PUT")
        /\ agg.exc # "none" => (ProxyLeft <=> ProxyMade)
        /\ (agg.exc # "none" /\ Len(agg.sent) = 2 /\ agg.o2.t = "resp") =>
               (ProxyMade /\ agg.o2.status \notin {200, 201})

C40_Witness ==
    /\ agg.op = "aggregateResourceInt"
    /\ agg.exc = "HTTP_Error"
    /\ agg.msg = "Error creating aggregated resource content"
    /\ Len(agg.sent) = 2
    /\ agg.o2.t = "resp"
    /\ agg.o2.status = 404
    /\ ProxyLeft

\* C36: once the constructor's _loadManifest has completed, threads that
\* call _loadManifest and the manifest predicates in any interleaving fetch
\* nothing, leave the cached graph in place, and are given no graph other
\* than the one first loaded.
C36_ReadersAfterLoadAreSafe ==
    built = "yes" =>
        /\ fetches <= 1
        /\ manifestgraph = first
        /\ \A t \in Threads :
               callers[t].pc = "returned" => callers[t].seen = first

\* the same for an assembler whose first load gave a graph with triples
C36_SafeWhenManifestNotEmpty ==
    (built = "yes" /\ first.triples # {}) => C36_ReadersAfterLoadAreSafe

====
